---- MODULE Spec2Model ----
(***************************************************************************)
(* Model of BasketballReportGenerator.generate_report (generate_data.py):  *)
(* the stat ledger (event_templates effects), the lineup manager           *)
(* (_handle_substitution, _force_foul_out_substitution), the sequence      *)
(* handlers of the main loop and the period controller.                    *)
(*                                                                         *)
(* One action is one sequence step of the loop body: the step applies an   *)
(* event effect and appends its log line(s).  Random draws are             *)
(* nondeterministic choices.  String wording of a description is reduced   *)
(* to the template kind, the team of the named player and the period.      *)
(***************************************************************************)
EXTENDS Integers, Sequences, FiniteSets, TLC

(***************************************************************************)
(* Bounds.  The source plays 12-player rosters, 5 starters, a foul limit   *)
(* of 5, a team-foul limit of 5 and 150/600/900 target events; the model   *)
(* scales them down.                                                       *)
(***************************************************************************)
NumPlayers == 4
StartingFive == 2
FOUL_LIMIT == 2
TEAM_FOUL_LIMIT == 2
TargetEvents == 4
MaxPasses == 1

Teams == {"A", "B"}
teamA_name == "A"
teamB_name == "B"
team_names == <<teamA_name, teamB_name>>
None == "None"
NoPlayer == <<"None", 0>>   \* the value None of a player-valued variable

Other(t) == IF t = teamA_name THEN teamB_name ELSE teamA_name
Roster(t) == {<<t, i>> : i \in 1..NumPlayers}
AllPlayers == Roster(teamA_name) \cup Roster(teamB_name)
Max(a, b) == IF a >= b THEN a ELSE b
Min(a, b) == IF a <= b THEN a ELSE b

StatKeys ==
    {"points", "assists", "rebounds", "defensive_rebounds", "offensive_rebounds",
     "fouls", "steals", "blocks", "turnovers",
     "2pt_shots_made", "2pt_shots_attempted",
     "3pt_shots_made", "3pt_shots_attempted",
     "ft_made", "ft_attempted"}

NoScore == [type |-> None, pA |-> NoPlayer, pB |-> NoPlayer, team |-> None]

ZeroStats == [k \in StatKeys |-> 0]

_initialize_stats ==
    [t \in Teams |-> [stats |-> ZeroStats, players |-> [p \in Roster(t) |-> ZeroStats]]]

(***************************************************************************)
(* Stat ledger: the 'effect' lambdas of event_templates.  Each dict.update *)
(* reads the old values and writes the named keys; the updates of one      *)
(* lambda run in order (team, passer, shooter).                            *)
(***************************************************************************)
assist_and_score_2pt_bad(state, pA, pB, team) ==
    LET s1 == [state EXCEPT ![team].stats =
                  [@ EXCEPT !.points = @ + 2, !.assists = @ + 1,
                            !["2pt_shots_made"] = @ + 1]]
        s2 == [s1 EXCEPT ![team].players[pA] = [@ EXCEPT !.assists = @ + 1]]
    IN  [s2 EXCEPT ![team].players[pB] =
                  [@ EXCEPT !.points = @ + 2, !["2pt_shots_made"] = @ + 1]]

assist_and_score_2pt(state, pA, pB, team) ==
    LET s1 == [state EXCEPT ![team].stats =
                  [@ EXCEPT !.points = @ + 2, !.assists = @ + 1,
                            !["2pt_shots_made"] = @ + 1,
                            !["2pt_shots_attempted"] = @ + 1]]
        s2 == [s1 EXCEPT ![team].players[pA] = [@ EXCEPT !.assists = @ + 1]]
    IN  [s2 EXCEPT ![team].players[pB] =
                  [@ EXCEPT !.points = @ + 2, !["2pt_shots_made"] = @ + 1,
                            !["2pt_shots_attempted"] = @ + 1]]

assist_and_score_2pt_opposite(state, pA, pB, team) ==
    LET s1 == [state EXCEPT ![team].stats =
                  [@ EXCEPT !.points = @ + 2, !.assists = @ + 1,
                            !["2pt_shots_made"] = @ + 1,
                            !["2pt_shots_attempted"] = @ + 1]]
        s2 == [s1 EXCEPT ![team].players[pA] = [@ EXCEPT !.assists = @ + 1]]
    IN  [s2 EXCEPT ![team].players[pB] =
                  [@ EXCEPT !.points = @ + 2, !["2pt_shots_made"] = @ + 1,
                            !["2pt_shots_attempted"] = @ + 1]]

\* a 3-point basket that is worth two points
assist_and_score_3pt_bad(state, pA, pB, team) ==
    LET s1 == [state EXCEPT ![team].stats =
                  [@ EXCEPT !.points = @ + 2, !.assists = @ + 1,
                            !["3pt_shots_made"] = @ + 1,
                            !["3pt_shots_attempted"] = @ + 1]]
        s2 == [s1 EXCEPT ![team].players[pA] = [@ EXCEPT !.assists = @ + 1]]
    IN  [s2 EXCEPT ![team].players[pB] =
                  [@ EXCEPT !.points = @ + 2, !["3pt_shots_made"] = @ + 1,
                            !["3pt_shots_attempted"] = @ + 1]]

assist_and_score_3pt(state, pA, pB, team) ==
    LET s1 == [state EXCEPT ![team].stats =
                  [@ EXCEPT !.points = @ + 3, !.assists = @ + 1,
                            !["3pt_shots_made"] = @ + 1,
                            !["3pt_shots_attempted"] = @ + 1]]
        s2 == [s1 EXCEPT ![team].players[pA] = [@ EXCEPT !.assists = @ + 1]]
    IN  [s2 EXCEPT ![team].players[pB] =
                  [@ EXCEPT !.points = @ + 3, !["3pt_shots_made"] = @ + 1,
                            !["3pt_shots_attempted"] = @ + 1]]

assist_and_score_3pt_opposite(state, pA, pB, team) ==
    LET s1 == [state EXCEPT ![team].stats =
                  [@ EXCEPT !.points = @ + 3, !.assists = @ + 1,
                            !["3pt_shots_made"] = @ + 1,
                            !["3pt_shots_attempted"] = @ + 1]]
        s2 == [s1 EXCEPT ![team].players[pA] = [@ EXCEPT !.assists = @ + 1]]
    IN  [s2 EXCEPT ![team].players[pB] =
                  [@ EXCEPT !.points = @ + 3, !["3pt_shots_made"] = @ + 1,
                            !["3pt_shots_attempted"] = @ + 1]]

\* a miss that also charges the passer with an attempt
miss_2pt_from_pass_bad(state, pA, pB, team) ==
    LET s1 == [state EXCEPT ![team].stats = [@ EXCEPT !["2pt_shots_attempted"] = @ + 1]]
        s2 == [s1 EXCEPT ![team].players[pA] = [@ EXCEPT !["2pt_shots_attempted"] = @ + 1]]
    IN  [s2 EXCEPT ![team].players[pB] = [@ EXCEPT !["2pt_shots_attempted"] = @ + 1]]

miss_2pt_from_pass(state, pA, pB, team) ==
    LET s1 == [state EXCEPT ![team].stats = [@ EXCEPT !["2pt_shots_attempted"] = @ + 1]]
    IN  [s1 EXCEPT ![team].players[pB] = [@ EXCEPT !["2pt_shots_attempted"] = @ + 1]]

miss_3pt_from_pass(state, pA, pB, team) ==
    LET s1 == [state EXCEPT ![team].stats = [@ EXCEPT !["3pt_shots_attempted"] = @ + 1]]
    IN  [s1 EXCEPT ![team].players[pB] = [@ EXCEPT !["3pt_shots_attempted"] = @ + 1]]

var_overturn_2pt_bad(state, pA, pB, team) ==
    LET s1 == [state EXCEPT ![team].stats =
                  [@ EXCEPT !.points = Max(0, @ - 2), !.assists = Max(0, @ - 1),
                            !.fouls = @ + 1, !.turnovers = @ + 1,
                            !["2pt_shots_attempted"] = Max(0, @ - 1)]]
        s2 == [s1 EXCEPT ![team].players[pA] = [@ EXCEPT !.assists = Max(0, @ - 1)]]
    IN  [s2 EXCEPT ![team].players[pB] =
                  [@ EXCEPT !.points = Max(0, @ - 2),
                            !.fouls = @ + 1, !.turnovers = @ + 1,
                            !["2pt_shots_attempted"] = Max(0, @ - 1)]]

var_overturn_2pt(state, pA, pB, team) ==
    LET s1 == [state EXCEPT ![team].stats =
                  [@ EXCEPT !.points = Max(0, @ - 2), !.assists = Max(0, @ - 1),
                            !.fouls = @ + 1, !.turnovers = @ + 1,
                            !["2pt_shots_made"] = Max(0, @ - 1),
                            !["2pt_shots_attempted"] = Max(0, @ - 1)]]
        s2 == [s1 EXCEPT ![team].players[pA] = [@ EXCEPT !.assists = Max(0, @ - 1)]]
        s3 == [s2 EXCEPT ![team].players[pB] =
                  [@ EXCEPT !.points = Max(0, @ - 2),
                            !.fouls = @ + 1, !.turnovers = @ + 1,
                            !["2pt_shots_made"] = Max(0, @ - 1),
                            !["2pt_shots_attempted"] = Max(0, @ - 1)]]
        s4 == [s3 EXCEPT ![team].stats["2pt_shots_attempted"] =
                  Max(@, s3[team].stats["2pt_shots_made"])]
    IN  [s4 EXCEPT ![team].players[pB]["2pt_shots_attempted"] =
                  Max(@, s4[team].players[pB]["2pt_shots_made"])]

var_overturn_3pt(state, pA, pB, team) ==
    LET s1 == [state EXCEPT ![team].stats =
                  [@ EXCEPT !.points = Max(0, @ - 3), !.assists = Max(0, @ - 1),
                            !.turnovers = @ + 1,
                            !["3pt_shots_made"] = Max(0, @ - 1),
                            !["3pt_shots_attempted"] = Max(0, @ - 1)]]
        s2 == [s1 EXCEPT ![team].players[pA] = [@ EXCEPT !.assists = Max(0, @ - 1)]]
        s3 == [s2 EXCEPT ![team].players[pB] =
                  [@ EXCEPT !.points = Max(0, @ - 3),
                            !.turnovers = @ + 1,
                            !["3pt_shots_made"] = Max(0, @ - 1),
                            !["3pt_shots_attempted"] = Max(0, @ - 1)]]
        s4 == [s3 EXCEPT ![team].stats["3pt_shots_attempted"] =
                  Max(@, s3[team].stats["3pt_shots_made"])]
    IN  [s4 EXCEPT ![team].players[pB]["3pt_shots_attempted"] =
                  Max(@, s4[team].players[pB]["3pt_shots_made"])]

var_overturn_3pt_another(state, pA, pB, team) ==
    LET s1 == [state EXCEPT ![team].stats =
                  [@ EXCEPT !.points = Max(0, @ - 3), !.assists = Max(0, @ - 1),
                            !.turnovers = @ + 1,
                            !["3pt_shots_made"] = Max(0, @ - 1),
                            !["3pt_shots_attempted"] = Max(0, @ - 1)]]
        s2 == [s1 EXCEPT ![team].players[pA] = [@ EXCEPT !.assists = Max(0, @ - 1)]]
        s3 == [s2 EXCEPT ![team].players[pB] =
                  [@ EXCEPT !.points = Max(0, @ - 3),
                            !.turnovers = @ + 1,
                            !["3pt_shots_made"] = Max(0, @ - 1),
                            !["3pt_shots_attempted"] = Max(0, @ - 1)]]
        s4 == [s3 EXCEPT ![team].stats["3pt_shots_attempted"] =
                  Max(@, s3[team].stats["3pt_shots_made"])]
    IN  [s4 EXCEPT ![team].players[pB]["3pt_shots_attempted"] =
                  Max(@, s4[team].players[pB]["3pt_shots_made"])]

\* a downgrade that takes the point from the team only
var_change_3_to_2_bad(state, pA, pB, team) ==
    LET s1 == [state EXCEPT ![team].stats =
                  [@ EXCEPT !.points = Max(0, @ - 1),
                            !["3pt_shots_made"] = Max(0, @ - 1),
                            !["3pt_shots_attempted"] = Max(0, @ - 1),
                            !["2pt_shots_made"] = @ + 1,
                            !["2pt_shots_attempted"] = @ + 1]]
    IN  [s1 EXCEPT ![team].players[pB] =
                  [@ EXCEPT !["3pt_shots_made"] = Max(0, @ - 1),
                            !["3pt_shots_attempted"] = Max(0, @ - 1),
                            !["2pt_shots_made"] = @ + 1,
                            !["2pt_shots_attempted"] = @ + 1]]

var_change_3_to_2(state, pA, pB, team) ==
    LET s1 == [state EXCEPT ![team].stats =
                  [@ EXCEPT !.points = Max(0, @ - 1),
                            !["3pt_shots_made"] = Max(0, @ - 1),
                            !["3pt_shots_attempted"] = Max(0, @ - 1),
                            !["2pt_shots_made"] = @ + 1,
                            !["2pt_shots_attempted"] = @ + 1]]
        s2 == [s1 EXCEPT ![team].players[pB] =
                  [@ EXCEPT !.points = Max(0, @ - 1),
                            !["3pt_shots_made"] = Max(0, @ - 1),
                            !["3pt_shots_attempted"] = Max(0, @ - 1),
                            !["2pt_shots_made"] = @ + 1,
                            !["2pt_shots_attempted"] = @ + 1]]
        s3 == [s2 EXCEPT ![team].stats["3pt_shots_attempted"] =
                  Max(@, s2[team].stats["3pt_shots_made"])]
        s4 == [s3 EXCEPT ![team].players[pB]["3pt_shots_attempted"] =
                  Max(@, s3[team].players[pB]["3pt_shots_made"])]
        s5 == [s4 EXCEPT ![team].stats["2pt_shots_attempted"] =
                  Max(@, s4[team].stats["2pt_shots_made"])]
    IN  [s5 EXCEPT ![team].players[pB]["2pt_shots_attempted"] =
                  Max(@, s5[team].players[pB]["2pt_shots_made"])]

shooting_foul_2pt(state, pA, pB, teamA, teamB) ==
    LET s1 == [state EXCEPT ![teamA].stats["2pt_shots_attempted"] = @ + 1]
        s2 == [s1 EXCEPT ![teamA].players[pA]["2pt_shots_attempted"] = @ + 1]
        s3 == [s2 EXCEPT ![teamB].stats.fouls = @ + 1]
    IN  [s3 EXCEPT ![teamB].players[pB].fouls = @ + 1]

shooting_foul_3pt(state, pA, pB, teamA, teamB) ==
    LET s1 == [state EXCEPT ![teamA].stats["3pt_shots_attempted"] = @ + 1]
        s2 == [s1 EXCEPT ![teamA].players[pA]["3pt_shots_attempted"] = @ + 1]
        s3 == [s2 EXCEPT ![teamB].stats.fouls = @ + 1]
    IN  [s3 EXCEPT ![teamB].players[pB].fouls = @ + 1]

ft_made_bad(state, pA, team) ==
    LET s1 == [state EXCEPT ![team].stats =
                  [@ EXCEPT !.points = @ + 2, !.ft_made = @ + 1, !.ft_attempted = @ + 1]]
    IN  [s1 EXCEPT ![team].players[pA] =
                  [@ EXCEPT !.points = @ + 2, !.ft_made = @ + 1, !.ft_attempted = @ + 1]]

ft_made(state, pA, team) ==
    LET s1 == [state EXCEPT ![team].stats =
                  [@ EXCEPT !.points = @ + 1, !.ft_made = @ + 1, !.ft_attempted = @ + 1]]
    IN  [s1 EXCEPT ![team].players[pA] =
                  [@ EXCEPT !.points = @ + 1, !.ft_made = @ + 1, !.ft_attempted = @ + 1]]

\* a missed free throw that is counted for the team only
ft_missed_uncounted(state, pA, team) == [state EXCEPT ![team].stats.ft_attempted = @ + 1]

ft_missed(state, pA, team) ==
    LET s1 == [state EXCEPT ![team].stats.ft_attempted = @ + 1]
    IN  [s1 EXCEPT ![team].players[pA].ft_attempted = @ + 1]

steal(state, pA, pB, teamA, teamB) ==
    LET s1 == [state EXCEPT ![teamA].stats.steals = @ + 1]
        s2 == [s1 EXCEPT ![teamB].stats.turnovers = @ + 1]
        s3 == [s2 EXCEPT ![teamA].players[pA].steals = @ + 1]
    IN  [s3 EXCEPT ![teamB].players[pB].turnovers = @ + 1]

turnover_by_bad_pass(state, pA, team) ==
    LET s1 == [state EXCEPT ![team].stats.turnovers = @ + 1]
    IN  [s1 EXCEPT ![team].players[pA].turnovers = @ + 1]

block_on_2pt_shot(state, pA, pB, teamA, teamB) ==
    LET s1 == [state EXCEPT ![teamA].stats.blocks = @ + 1]
        s2 == [s1 EXCEPT ![teamA].players[pA].blocks = @ + 1]
        s3 == [s2 EXCEPT ![teamB].stats["2pt_shots_attempted"] = @ + 1]
    IN  [s3 EXCEPT ![teamB].players[pB]["2pt_shots_attempted"] = @ + 1]

block_on_3pt_shot(state, pA, pB, teamA, teamB) ==
    LET s1 == [state EXCEPT ![teamA].stats.blocks = @ + 1]
        s2 == [s1 EXCEPT ![teamA].players[pA].blocks = @ + 1]
        s3 == [s2 EXCEPT ![teamB].stats["3pt_shots_attempted"] = @ + 1]
    IN  [s3 EXCEPT ![teamB].players[pB]["3pt_shots_attempted"] = @ + 1]

rebound_defensive(state, pA, team) ==
    LET s1 == [state EXCEPT ![team].stats =
                  [@ EXCEPT !.rebounds = @ + 1, !.defensive_rebounds = @ + 1]]
    IN  [s1 EXCEPT ![team].players[pA] =
                  [@ EXCEPT !.rebounds = @ + 1, !.defensive_rebounds = @ + 1]]

rebound_offensive(state, pA, team) ==
    LET s1 == [state EXCEPT ![team].stats =
                  [@ EXCEPT !.rebounds = @ + 1, !.offensive_rebounds = @ + 1]]
    IN  [s1 EXCEPT ![team].players[pA] =
                  [@ EXCEPT !.rebounds = @ + 1, !.offensive_rebounds = @ + 1]]


(***************************************************************************)
(* Lists of player names (active, bench, disqualified) are kept as         *)
(* multiplicity maps: list.append adds one occurrence, list.remove takes   *)
(* one away, 'x in list' is a positive count.                              *)
(***************************************************************************)
EmptyList == [p \in AllPlayers |-> 0]
ListOf(S) == [p \in AllPlayers |-> IF p \in S THEN 1 ELSE 0]
In(p, l) == p \in DOMAIN l /\ l[p] > 0
Elems(l) == {p \in AllPlayers : l[p] > 0}
ListAppend(l, p) == [l EXCEPT ![p] = @ + 1]
ListRemove(l, p) == [l EXCEPT ![p] = @ - 1]

RECURSIVE SumCounts(_, _)
SumCounts(l, S) ==
    IF S = {} THEN 0
    ELSE LET p == CHOOSE q \in S : TRUE IN l[p] + SumCounts(l, S \ {p})

ListLen(l) == SumCounts(l, AllPlayers)

(***************************************************************************)
(* A log record: event_id and a description reduced to template kind, team *)
(* of the named player ("-" if none) and period number (0 if none).        *)
(***************************************************************************)
Desc(kind, team, period) == [kind |-> kind, team |-> team, period |-> period]

\* a log whose ids start at 0
LogAppend_bad(log, d) == Append(log, [event_id |-> Len(log), description |-> d])

LogAppend(log, d) == Append(log, [event_id |-> Len(log) + 1, description |-> d])

HasLine(log, d) == \E i \in 1..Len(log) : log[i].description = d

_available_players_count(team_name, lineups) ==
    ListLen(lineups[team_name].active) + ListLen(lineups[team_name].bench)

\* a team may always be charged
_team_can_commit_fouls_bad(team_name, lineups) == team_name \in Teams

_team_can_commit_fouls(team_name, lineups) ==
    Elems(lineups[team_name].bench) # {}

\* a foul-out that marks the player disqualified but leaves the court as it is
_force_foul_out_substitution_bad(team_name, player_out, lineups, log, participants) ==
    {[game_lineups |->
          [lineups EXCEPT ![team_name].disqualified = ListAppend(@, player_out)],
      play_by_play |-> LogAppend(log, Desc("foul_out", team_name, 0)),
      game_participants |-> participants]}

\* a foul-out replacement that is not recorded as a participant
_force_foul_out_substitution_unrecorded(team_name, player_out, lineups, log, participants) ==
    LET l1 == [lineups EXCEPT ![team_name].active = ListRemove(@, player_out),
                              ![team_name].disqualified = ListAppend(@, player_out)]
        log1 == LogAppend(log, Desc("foul_out", team_name, 0))
        bench == Elems(l1[team_name].bench)
    IN  IF bench # {}
        THEN {[game_lineups |->
                   [l1 EXCEPT ![team_name].bench = ListRemove(@, player_in),
                              ![team_name].active = ListAppend(@, player_in)],
               play_by_play |-> LogAppend(log1, Desc("substitution_fouled_out", team_name, 0)),
               game_participants |-> participants]
              : player_in \in bench}
        ELSE {[game_lineups |-> l1,
               play_by_play |-> LogAppend(log1, Desc("short_handed", team_name, 0)),
               game_participants |-> participants]}

\* a foul-out that never brings a replacement in
_force_foul_out_substitution_short(team_name, player_out, lineups, log, participants) ==
    LET l1 == [lineups EXCEPT ![team_name].active = ListRemove(@, player_out),
                              ![team_name].disqualified = ListAppend(@, player_out)]
        log1 == LogAppend(log, Desc("foul_out", team_name, 0))
    IN  {[game_lineups |-> l1,
          play_by_play |-> LogAppend(log1, Desc("short_handed", team_name, 0)),
          game_participants |-> participants]}

\* a foul-out that looks for a replacement wherever the player was
_force_foul_out_substitution_benched(team_name, player_out, lineups, log, participants) ==
    LET l1 == IF In(player_out, lineups[team_name].active)
              THEN [lineups EXCEPT ![team_name].active = ListRemove(@, player_out)]
              ELSE IF In(player_out, lineups[team_name].bench)
                   THEN [lineups EXCEPT ![team_name].bench = ListRemove(@, player_out)]
                   ELSE lineups
        l2 == IF ~In(player_out, l1[team_name].disqualified)
              THEN [l1 EXCEPT ![team_name].disqualified = ListAppend(@, player_out)]
              ELSE l1
        log1 == LogAppend(log, Desc("foul_out", team_name, 0))
        bench == Elems(l2[team_name].bench)
    IN  IF bench # {}
        THEN {[game_lineups |->
                   [l2 EXCEPT ![team_name].bench = ListRemove(@, player_in),
                              ![team_name].active = ListAppend(@, player_in)],
               play_by_play |-> LogAppend(log1, Desc("substitution_fouled_out", team_name, 0)),
               game_participants |->
                   [participants EXCEPT ![team_name] = @ \cup {player_in}]]
              : player_in \in bench}
        ELSE {[game_lineups |-> l2,
               play_by_play |-> LogAppend(log1, Desc("short_handed", team_name, 0)),
               game_participants |-> participants]}

(***************************************************************************)
(* _force_foul_out_substitution: the set of outcomes (one per choice of    *)
(* the entering player), each the new lineups, log and participants.       *)
(***************************************************************************)
_force_foul_out_substitution(team_name, player_out, lineups, log, participants) ==
    LET was_active == In(player_out, lineups[team_name].active)
        l1 == IF was_active
              THEN [lineups EXCEPT ![team_name].active = ListRemove(@, player_out)]
              ELSE IF In(player_out, lineups[team_name].bench)
                   THEN [lineups EXCEPT ![team_name].bench = ListRemove(@, player_out)]
                   ELSE lineups
        l2 == IF ~In(player_out, l1[team_name].disqualified)
              THEN [l1 EXCEPT ![team_name].disqualified = ListAppend(@, player_out)]
              ELSE l1
        log1 == LogAppend(log, Desc("foul_out", team_name, 0))
        bench == Elems(l2[team_name].bench)
    IN  IF ~was_active
        THEN {[game_lineups |-> l2, play_by_play |-> log1,
               game_participants |-> participants]}
        ELSE IF bench # {}
        THEN {[game_lineups |->
                   [l2 EXCEPT ![team_name].bench = ListRemove(@, player_in),
                              ![team_name].active = ListAppend(@, player_in)],
               play_by_play |-> LogAppend(log1, Desc("substitution_fouled_out", team_name, 0)),
               game_participants |->
                   [participants EXCEPT ![team_name] = @ \cup {player_in}]]
              : player_in \in bench}
        ELSE {[game_lineups |-> l2,
               play_by_play |-> LogAppend(log1, Desc("short_handed", team_name, 0)),
               game_participants |-> participants]}

\* a check that reads the team's foul count instead of the player's
_check_and_handle_foul_out_team(team_name, player_name, stats, lineups, log, participants) ==
    IF In(player_name, lineups[team_name].disqualified)
    THEN {[game_lineups |-> lineups, play_by_play |-> log,
           game_participants |-> participants]}
    ELSE IF stats[team_name].stats.fouls >= FOUL_LIMIT
    THEN _force_foul_out_substitution(team_name, player_name, lineups, log, participants)
    ELSE {[game_lineups |-> lineups, play_by_play |-> log,
           game_participants |-> participants]}

\* a check that lets a player stay on FOUL_LIMIT fouls
_check_and_handle_foul_out_bad(team_name, player_name, stats, lineups, log, participants) ==
    IF stats[team_name].players[player_name].fouls > FOUL_LIMIT
    THEN _force_foul_out_substitution(team_name, player_name, lineups, log, participants)
    ELSE {[game_lineups |-> lineups, play_by_play |-> log,
           game_participants |-> participants]}

_check_and_handle_foul_out(team_name, player_name, stats, lineups, log, participants) ==
    IF In(player_name, lineups[team_name].disqualified)
    THEN {[game_lineups |-> lineups, play_by_play |-> log,
           game_participants |-> participants]}
    ELSE IF stats[team_name].players[player_name].fouls >= FOUL_LIMIT
    THEN _force_foul_out_substitution(team_name, player_name, lineups, log, participants)
    ELSE {[game_lineups |-> lineups, play_by_play |-> log,
           game_participants |-> participants]}

\* a substitution that may take the protected player off
_handle_substitution_unprotected(team_name, lineups, log, participants, sub_chance, cant_sub_player) ==
    LET same == [game_lineups |-> lineups, play_by_play |-> log,
                 game_participants |-> participants]
        bench_players == Elems(lineups[team_name].bench)
        sub_out_options == Elems(lineups[team_name].active)
        swaps ==
            {[game_lineups |->
                  [lineups EXCEPT
                     ![team_name].active = ListAppend(ListRemove(@, player_out), player_in),
                     ![team_name].bench = ListRemove(ListAppend(@, player_out), player_in)],
              play_by_play |-> LogAppend(log, Desc("substitution", team_name, 0)),
              game_participants |->
                  [participants EXCEPT ![team_name] = @ \cup {player_in}]]
             : player_out \in sub_out_options, player_in \in bench_players}
    IN  (IF sub_chance < 100 THEN {same} ELSE {})
        \cup (IF sub_chance > 0
              THEN (IF bench_players = {} \/ sub_out_options = {} THEN {same} ELSE swaps)
              ELSE {})

\* a substitution that may also bring in a disqualified player
_handle_substitution_bad(team_name, lineups, log, participants, sub_chance, cant_sub_player) ==
    LET same == [game_lineups |-> lineups, play_by_play |-> log,
                 game_participants |-> participants]
        sub_out_options == Elems(lineups[team_name].active) \ {cant_sub_player}
        bench_players == Elems(lineups[team_name].bench)
                             \cup Elems(lineups[team_name].disqualified)
        swaps ==
            {[game_lineups |->
                  [lineups EXCEPT
                     ![team_name].active = ListAppend(ListRemove(@, player_out), player_in),
                     ![team_name].bench =
                         IF In(player_in, @)
                         THEN ListRemove(ListAppend(@, player_out), player_in)
                         ELSE ListAppend(@, player_out),
                     ![team_name].disqualified =
                         IF In(player_in, lineups[team_name].bench) THEN @
                         ELSE ListRemove(@, player_in)],
              play_by_play |-> LogAppend(log, Desc("substitution", team_name, 0)),
              game_participants |->
                  [participants EXCEPT ![team_name] = @ \cup {player_in}]]
             : player_out \in sub_out_options, player_in \in bench_players}
    IN  (IF sub_chance < 100 THEN {same} ELSE {})
        \cup (IF sub_chance > 0
              THEN (IF bench_players = {} \/ sub_out_options = {} THEN {same} ELSE swaps)
              ELSE {})

(***************************************************************************)
(* _handle_substitution: the set of outcomes.  sub_chance is a percentage; *)
(* random.random() < sub_chance can succeed iff it is positive and can     *)
(* fail iff it is below 100.                                               *)
(***************************************************************************)
_handle_substitution(team_name, lineups, log, participants, sub_chance, cant_sub_player) ==
    LET same == [game_lineups |-> lineups, play_by_play |-> log,
                 game_participants |-> participants]
        bench_players == Elems(lineups[team_name].bench)
        sub_out_options == Elems(lineups[team_name].active) \ {cant_sub_player}
        swaps ==
            {[game_lineups |->
                  [lineups EXCEPT
                     ![team_name].active = ListAppend(ListRemove(@, player_out), player_in),
                     ![team_name].bench = ListRemove(ListAppend(@, player_out), player_in)],
              play_by_play |-> LogAppend(log, Desc("substitution", team_name, 0)),
              game_participants |->
                  [participants EXCEPT ![team_name] = @ \cup {player_in}]]
             : player_out \in sub_out_options, player_in \in bench_players}
    IN  (IF sub_chance < 100 THEN {same} ELSE {})
        \cup (IF sub_chance > 0
              THEN (IF bench_players = {} \/ sub_out_options = {} THEN {same} ELSE swaps)
              ELSE {})


(***************************************************************************)
(* Event categories of generate_report.                                    *)
(***************************************************************************)
Successful_2pt_events == {"assist_and_score_2pt", "assist_and_score_2pt_opposite"}
Successful_3pt_events == {"assist_and_score_3pt", "assist_and_score_3pt_opposite"}
Successful_events == Successful_2pt_events \cup Successful_3pt_events
unsuccessful_2pt_events == {"miss_2pt_from_pass", "block_on_2pt_shot", "shooting_foul_2pt"}
unsuccessful_3pt_events == {"miss_3pt_from_pass", "block_on_3pt_shot", "shooting_foul_3pt"}
two_offense_player_events ==
    Successful_events \cup {"miss_2pt_from_pass", "miss_3pt_from_pass"}
shooting_foul_events == {"shooting_foul_2pt", "shooting_foul_3pt"}
OFFENSIVE_EVENTS ==
    {"turnover_by_bad_pass", "steal", "timeout"} \cup Successful_events
        \cup unsuccessful_2pt_events \cup unsuccessful_3pt_events
offensive_foul_var == {"var_overturn_2pt"}

ScoreEffect(et, state, pA, pB, team) ==
    CASE et = "assist_and_score_2pt" -> assist_and_score_2pt(state, pA, pB, team)
      [] et = "assist_and_score_2pt_opposite" ->
             assist_and_score_2pt_opposite(state, pA, pB, team)
      [] et = "assist_and_score_3pt" -> assist_and_score_3pt(state, pA, pB, team)
      [] et = "assist_and_score_3pt_opposite" ->
             assist_and_score_3pt_opposite(state, pA, pB, team)

\* a correction that debits the passer as the scorer and the scorer as the passer
VarEffect_swapped(vt, state, pA, pB, team) ==
    CASE vt = "var_overturn_2pt" -> var_overturn_2pt(state, pB, pA, team)
      [] vt = "var_overturn_3pt" -> var_overturn_3pt(state, pB, pA, team)
      [] vt = "var_overturn_3pt_another" -> var_overturn_3pt_another(state, pB, pA, team)
      [] vt = "var_change_3_to_2" -> var_change_3_to_2(state, pB, pA, team)

VarEffect(vt, state, pA, pB, team) ==
    CASE vt = "var_overturn_2pt" -> var_overturn_2pt(state, pA, pB, team)
      [] vt = "var_overturn_3pt" -> var_overturn_3pt(state, pA, pB, team)
      [] vt = "var_overturn_3pt_another" -> var_overturn_3pt_another(state, pA, pB, team)
      [] vt = "var_change_3_to_2" -> var_change_3_to_2(state, pA, pB, team)

(***************************************************************************)
(* Difficulty tiers.  A tier is the block of settings generate_report      *)
(* derives from 'difficulty': the pass limit, the substitution and VAR     *)
(* switches and chances (percent), the target and the weight table.  A     *)
(* kind of weight 0 is never drawn.  max_log caps the length of the runs   *)
(* explored.                                                               *)
(***************************************************************************)
Weights(S) == [et \in OFFENSIVE_EVENTS |-> IF et \in S THEN 1 ELSE 0]

Tier(passes, subs, var, events, target, horizon) ==
    [target_events |-> target,
     difficulty_max_passes |-> passes,
     allow_substitutions |-> TRUE,
     difficulty_sub_chance |-> subs,
     allow_var |-> var > 0,
     difficulty_var_chance |-> var,
     EVENT_WEIGHTS |-> Weights(events),
     max_log |-> horizon]

VARIABLES
    cfg,                        \* the difficulty tier's settings
    game_stats, game_lineups, game_participants, play_by_play,
    last_score_event_details, player_with_ball, possession,
    quarter_starters, quarter_targets, quarter, team_fouls_in_quarter,
    billed_total, billed_in_quarter, ot_num, target_events,
    \* locals of one loop iteration
    pc, prev_len, offensive_team, event_type, ended_with_shot_attempt,
    shooter, ft_i, passes_done, subs_pending, var_event_type,
    \* __main__: the true report's final_score
    final_score,
    \* history: the ledger just before the last made basket was applied
    pre_score_stats

ledger == <<game_stats, pre_score_stats>>
lineup == <<game_lineups, game_participants>>
ball == <<player_with_ball, possession>>
period == <<quarter_starters, quarter_targets, quarter, team_fouls_in_quarter,
            billed_total, billed_in_quarter, ot_num, target_events>>
locals == <<prev_len, offensive_team, event_type, ended_with_shot_attempt,
            shooter, ft_i, passes_done, subs_pending, var_event_type>>
vars == <<cfg, ledger, lineup, play_by_play, last_score_event_details, ball,
          period, pc, locals, final_score>>

defensive_team == Other(offensive_team)
active_players == Elems(game_lineups[offensive_team].active)

(***************************************************************************)
(* Game setup: lineups, participants, ledger, opening jump ball, quarter   *)
(* budgets.                                                                *)
(***************************************************************************)
\* A player <<t, i>> is the i-th name of team t's shuffled roster: the first
\* five (here StartingFive) start, the rest sit on the bench.
InitialLineups ==
    [t \in Teams |->
        LET starters == {<<t, i>> : i \in 1..Min(StartingFive, NumPlayers)}
        IN  [active |-> ListOf(starters), bench |-> ListOf(Roster(t) \ starters),
             disqualified |-> EmptyList]]

\* budgets whose extra units go to the last quarters
QuarterTargets_bad(target) ==
    LET base == Max(0, target \div 4)
        rem == target % 4
    IN  [i \in 1..4 |-> base + (IF 4 - i < rem THEN 1 ELSE 0)]

QuarterTargets(target) ==
    LET base == Max(0, target \div 4)
        rem == target % 4
    IN  [i \in 1..4 |-> base + (IF i - 1 < rem THEN 1 ELSE 0)]

Setup(tier) ==
    /\ cfg = tier
    /\ game_lineups = InitialLineups
    /\ game_participants = [t \in Teams |-> Elems(game_lineups[t].active)]
    /\ game_stats = _initialize_stats
    /\ pre_score_stats = _initialize_stats
    /\ last_score_event_details = NoScore
    /\ \E winner_team \in Teams :
         /\ possession = winner_team
         /\ player_with_ball \in Elems(game_lineups[winner_team].active)
         /\ quarter_starters =
                <<winner_team, Other(winner_team), winner_team, Other(winner_team)>>
         /\ play_by_play =
                LogAppend(LogAppend(<<>>, Desc("jump_ball", winner_team, 0)),
                          Desc("Start of Q", "-", 1))
    /\ target_events = tier.target_events
    /\ quarter_targets = QuarterTargets(tier.target_events)
    /\ quarter = 1
    /\ team_fouls_in_quarter = [t \in Teams |-> 0]
    /\ billed_total = 0
    /\ billed_in_quarter = 0
    /\ ot_num = 0
    /\ pc = "loop"
    /\ prev_len = 0
    /\ offensive_team = possession
    /\ event_type = None
    /\ ended_with_shot_attempt = FALSE
    /\ shooter = NoPlayer
    /\ ft_i = 0
    /\ passes_done = 0
    /\ subs_pending = <<>>
    /\ var_event_type = None
    /\ final_score = <<>>


(***************************************************************************)
(* Start of a loop iteration (while billed_total < target_events): the     *)
(* inbound pass when nobody holds the ball, then up to                     *)
(* difficulty_max_passes passes.                                           *)
(***************************************************************************)
\* the runs explored are cut once the log holds max_log lines
Open == Len(play_by_play) < cfg.max_log

LoopGuard ==
    /\ pc = "loop"
    /\ billed_total < target_events
    /\ Open

Inbound ==
    /\ LoopGuard
    /\ player_with_ball = NoPlayer
    /\ \E inbounder \in Elems(game_lineups[possession].active) :
         LET receiver_options == Elems(game_lineups[possession].active) \ {inbounder}
         IN  \E receiver \in (IF receiver_options # {} THEN receiver_options
                              ELSE {inbounder}) :
               player_with_ball' = receiver
    /\ play_by_play' = LogAppend(play_by_play, Desc("inbound_pass", possession, 0))
    /\ prev_len' = Len(play_by_play)
    /\ offensive_team' = possession
    /\ pc' = "passes"
    /\ UNCHANGED <<cfg, ledger, lineup, last_score_event_details, possession, period,
                   event_type, ended_with_shot_attempt, shooter, ft_i, passes_done,
                   subs_pending, var_event_type, final_score>>

NoInbound ==
    /\ LoopGuard
    /\ player_with_ball # NoPlayer
    /\ prev_len' = Len(play_by_play)
    /\ offensive_team' = possession
    /\ pc' = "passes"
    /\ UNCHANGED <<cfg, ledger, lineup, play_by_play, last_score_event_details, ball,
                   period, event_type, ended_with_shot_attempt, shooter, ft_i,
                   passes_done, subs_pending, var_event_type, final_score>>

PassBall ==
    /\ pc = "passes"
    /\ Open
    /\ passes_done < cfg.difficulty_max_passes
    /\ \E receiver \in active_players \ {player_with_ball} :
         player_with_ball' = receiver
    /\ play_by_play' = LogAppend(play_by_play, Desc("pass_ball", offensive_team, 0))
    /\ passes_done' = passes_done + 1
    /\ UNCHANGED <<cfg, ledger, lineup, last_score_event_details, possession, period,
                   pc, prev_len, offensive_team, event_type, ended_with_shot_attempt,
                   shooter, ft_i, subs_pending, var_event_type, final_score>>

\* a filter that asks the offense for more players than a lineup holds
Pairs_bad ==
    {et \in OFFENSIVE_EVENTS :
        /\ ~(Cardinality(active_players) <= StartingFive /\ et \in two_offense_player_events)
        /\ ~(et \in shooting_foul_events
             /\ ~_team_can_commit_fouls(defensive_team, game_lineups))}

(***************************************************************************)
(* Event selection: filter the weighted table by feasibility, then draw    *)
(* by weight; 'timeout' if nothing is left.                                *)
(***************************************************************************)
Pairs ==
    {et \in OFFENSIVE_EVENTS :
        /\ ~(Cardinality(active_players) < 2 /\ et \in two_offense_player_events)
        /\ ~(et \in shooting_foul_events
             /\ ~_team_can_commit_fouls(defensive_team, game_lineups))}

SelectableEvents ==
    IF Pairs # {} THEN {et \in Pairs : cfg.EVENT_WEIGHTS[et] > 0} ELSE {"timeout"}

Selected(et) ==
    /\ pc = "passes"
    /\ Open
    /\ et \in SelectableEvents
    /\ event_type' = et

BothTeams == <<[team |-> teamA_name, cant_sub_player |-> NoPlayer],
               [team |-> teamB_name, cant_sub_player |-> NoPlayer]>>

\* a basket that the ball holder may score alone
MadeShot_bad ==
    \E et \in Successful_events :
      /\ Selected(et)
      /\ LET passer == player_with_ball
         IN  \E scorer \in active_players :
               /\ last_score_event_details' =
                      [type |-> et, pA |-> passer, pB |-> scorer, team |-> offensive_team]
               /\ game_stats' = ScoreEffect(et, game_stats, passer, scorer, offensive_team)
      /\ pre_score_stats' = game_stats
      /\ play_by_play' = LogAppend(play_by_play, Desc(et, offensive_team, 0))
      /\ ended_with_shot_attempt' = TRUE
      /\ possession' = defensive_team
      /\ pc' = "var"
      /\ UNCHANGED <<cfg, lineup, player_with_ball, period, prev_len, offensive_team,
                     shooter, ft_i, passes_done, subs_pending, var_event_type,
                     final_score>>

(***************************************************************************)
(* Made shot: effect, log line, possession flip, memory for VAR.           *)
(***************************************************************************)
MadeShot ==
    \E et \in Successful_events :
      /\ Selected(et)
      /\ LET passer == player_with_ball
             others == active_players \ {passer}
             scorer_options == IF others = {} THEN {passer} ELSE others
         IN  \E scorer \in scorer_options :
               /\ last_score_event_details' =
                      [type |-> et, pA |-> passer, pB |-> scorer, team |-> offensive_team]
               /\ game_stats' = ScoreEffect(et, game_stats, passer, scorer, offensive_team)
      /\ pre_score_stats' = game_stats
      /\ play_by_play' = LogAppend(play_by_play, Desc(et, offensive_team, 0))
      /\ ended_with_shot_attempt' = TRUE
      /\ possession' = defensive_team
      /\ pc' = "var"
      /\ UNCHANGED <<cfg, lineup, player_with_ball, period, prev_len, offensive_team,
                     shooter, ft_i, passes_done, subs_pending, var_event_type,
                     final_score>>

\* a review that may pick any variant whatever was scored
VarCandidates_bad ==
    {"var_overturn_2pt", "var_overturn_3pt", "var_overturn_3pt_another",
     "var_change_3_to_2"}

VarCandidates ==
    IF last_score_event_details.type \in Successful_2pt_events
    THEN {"var_overturn_2pt"}
    ELSE {"var_overturn_3pt", "var_overturn_3pt_another", "var_change_3_to_2"}

SubsForBothTeams == IF cfg.allow_substitutions THEN BothTeams ELSE <<>>

\* a review after which nobody may substitute
VarReview_alone ==
    /\ pc = "var"
    /\ Open
    /\ cfg.allow_var
    /\ cfg.difficulty_var_chance > 0
    /\ \E vt \in VarCandidates :
         LET pA_v == last_score_event_details.pA
             pB_v == last_score_event_details.pB
             team_v == last_score_event_details.team
         IN  /\ var_event_type' = vt
             /\ IF vt \in offensive_foul_var /\ ~_team_can_commit_fouls(team_v, game_lineups)
                THEN UNCHANGED <<game_stats, lineup, play_by_play, team_fouls_in_quarter>>
                ELSE LET stats1 == VarEffect(vt, game_stats, pA_v, pB_v, team_v)
                         log1 == LogAppend(play_by_play, Desc(vt, team_v, 0))
                     IN  /\ game_stats' = stats1
                         /\ IF vt \in offensive_foul_var
                            THEN /\ \E out \in _check_and_handle_foul_out(team_v, pB_v,
                                        stats1, game_lineups, log1, game_participants) :
                                      /\ game_lineups' = out.game_lineups
                                      /\ play_by_play' = out.play_by_play
                                      /\ game_participants' = out.game_participants
                                 /\ team_fouls_in_quarter' =
                                        [team_fouls_in_quarter EXCEPT ![team_v] = @ + 1]
                            ELSE /\ play_by_play' = log1
                                 /\ UNCHANGED <<lineup, team_fouls_in_quarter>>
    /\ subs_pending' = <<>>
    /\ pc' = "subs"
    /\ UNCHANGED <<cfg, pre_score_stats, last_score_event_details, ball,
                   quarter_starters, quarter_targets, quarter, billed_total,
                   billed_in_quarter, ot_num, target_events, prev_len, offensive_team,
                   event_type, ended_with_shot_attempt, shooter, ft_i, passes_done,
                   final_score>>

VarReview ==
    /\ pc = "var"
    /\ Open
    /\ cfg.allow_var
    /\ cfg.difficulty_var_chance > 0
    /\ \E vt \in VarCandidates :
         LET pA_v == last_score_event_details.pA
             pB_v == last_score_event_details.pB
             team_v == last_score_event_details.team
         IN  /\ var_event_type' = vt
             /\ IF vt \in offensive_foul_var /\ ~_team_can_commit_fouls(team_v, game_lineups)
                THEN UNCHANGED <<game_stats, lineup, play_by_play, team_fouls_in_quarter>>
                ELSE LET stats1 == VarEffect(vt, game_stats, pA_v, pB_v, team_v)
                         log1 == LogAppend(play_by_play, Desc(vt, team_v, 0))
                     IN  /\ game_stats' = stats1
                         /\ IF vt \in offensive_foul_var
                            THEN /\ \E out \in _check_and_handle_foul_out(team_v, pB_v,
                                        stats1, game_lineups, log1, game_participants) :
                                      /\ game_lineups' = out.game_lineups
                                      /\ play_by_play' = out.play_by_play
                                      /\ game_participants' = out.game_participants
                                 /\ team_fouls_in_quarter' =
                                        [team_fouls_in_quarter EXCEPT ![team_v] = @ + 1]
                            ELSE /\ play_by_play' = log1
                                 /\ UNCHANGED <<lineup, team_fouls_in_quarter>>
    /\ subs_pending' = SubsForBothTeams
    /\ pc' = "subs"
    /\ UNCHANGED <<cfg, pre_score_stats, last_score_event_details, ball,
                   quarter_starters, quarter_targets, quarter, billed_total,
                   billed_in_quarter, ot_num, target_events, prev_len, offensive_team,
                   event_type, ended_with_shot_attempt, shooter, ft_i, passes_done,
                   final_score>>

NoVar ==
    /\ pc = "var"
    /\ ~cfg.allow_var \/ cfg.difficulty_var_chance < 100
    /\ subs_pending' = SubsForBothTeams
    /\ pc' = "subs"
    /\ UNCHANGED <<cfg, ledger, lineup, play_by_play, last_score_event_details, ball,
                   period, prev_len, offensive_team, event_type,
                   ended_with_shot_attempt, shooter, ft_i, passes_done, var_event_type,
                   final_score>>

(***************************************************************************)
(* One substitution opportunity (_handle_substitution) of the pending      *)
(* ones.                                                                   *)
(***************************************************************************)
Substitution ==
    /\ pc = "subs"
    /\ Open
    /\ subs_pending # <<>>
    /\ LET h == Head(subs_pending)
       IN  \E out \in _handle_substitution(h.team, game_lineups, play_by_play,
                          game_participants, cfg.difficulty_sub_chance,
                          h.cant_sub_player) :
             /\ game_lineups' = out.game_lineups
             /\ play_by_play' = out.play_by_play
             /\ game_participants' = out.game_participants
    /\ subs_pending' = Tail(subs_pending)
    /\ UNCHANGED <<cfg, ledger, last_score_event_details, ball, period, pc, prev_len,
                   offensive_team, event_type, ended_with_shot_attempt, shooter, ft_i,
                   passes_done, var_event_type, final_score>>

\* player_with_ball = NoPlayer after a made basket or a bad pass
ClearBall ==
    /\ pc = "subs"
    /\ subs_pending = <<>>
    /\ event_type \in Successful_events \cup {"turnover_by_bad_pass"}
    /\ player_with_ball' = NoPlayer
    /\ pc' = "bill"
    /\ UNCHANGED <<cfg, ledger, lineup, play_by_play, last_score_event_details,
                   possession, period, locals, final_score>>


(***************************************************************************)
(* Timeout: log line, substitution opportunity for both teams, then the    *)
(* game-resume line and an inbound pass by the same offense.               *)
(***************************************************************************)
\* a timeout that charges the ball handler a turnover
Timeout_bad ==
    /\ Selected("timeout")
    /\ game_stats' = turnover_by_bad_pass(game_stats, player_with_ball, offensive_team)
    /\ play_by_play' = LogAppend(play_by_play, Desc("timeout", offensive_team, 0))
    /\ subs_pending' = SubsForBothTeams
    /\ pc' = "subs"
    /\ UNCHANGED <<cfg, pre_score_stats, lineup, last_score_event_details, ball, period,
                   prev_len, offensive_team, ended_with_shot_attempt, shooter, ft_i,
                   passes_done, var_event_type, final_score>>

Timeout ==
    /\ Selected("timeout")
    /\ play_by_play' = LogAppend(play_by_play, Desc("timeout", offensive_team, 0))
    /\ subs_pending' = SubsForBothTeams
    /\ pc' = "subs"
    /\ UNCHANGED <<cfg, ledger, lineup, last_score_event_details, ball, period,
                   prev_len, offensive_team, ended_with_shot_attempt, shooter, ft_i,
                   passes_done, var_event_type, final_score>>

\* a resume whose inbound pass may go to any player of the roster
ResumeInbound_bad ==
    /\ pc = "subs"
    /\ Open
    /\ subs_pending = <<>>
    /\ event_type = "timeout"
    /\ \E receiver \in Roster(offensive_team) : player_with_ball' = receiver
    /\ play_by_play' =
           LogAppend(LogAppend(play_by_play, Desc("game_resume", "-", 0)),
                     Desc("inbound_pass", offensive_team, 0))
    /\ pc' = "bill"
    /\ UNCHANGED <<cfg, ledger, lineup, last_score_event_details, possession, period,
                   locals, final_score>>

ResumeInbound ==
    /\ pc = "subs"
    /\ Open
    /\ subs_pending = <<>>
    /\ event_type = "timeout"
    /\ \E inbounder \in active_players :
         LET receiver_options == active_players \ {inbounder}
         IN  \E receiver \in (IF receiver_options # {} THEN receiver_options
                              ELSE {inbounder}) :
               player_with_ball' = receiver
    /\ play_by_play' =
           LogAppend(LogAppend(play_by_play, Desc("game_resume", "-", 0)),
                     Desc("inbound_pass", offensive_team, 0))
    /\ pc' = "bill"
    /\ UNCHANGED <<cfg, ledger, lineup, last_score_event_details, possession, period,
                   locals, final_score>>

(***************************************************************************)
(* Missed shot and blocked shot, each followed by the rebound step.        *)
(***************************************************************************)
MissEffect(et, state, pA, pB, team) ==
    IF et = "miss_2pt_from_pass" THEN miss_2pt_from_pass(state, pA, pB, team)
    ELSE miss_3pt_from_pass(state, pA, pB, team)

MissedShot ==
    \E et \in {"miss_2pt_from_pass", "miss_3pt_from_pass"} :
      /\ Selected(et)
      /\ LET passer == player_with_ball
             others == active_players \ {passer}
             shooter_options == IF others = {} THEN {passer} ELSE others
         IN  \E sh \in shooter_options :
               game_stats' = MissEffect(et, game_stats, passer, sh, offensive_team)
      /\ play_by_play' = LogAppend(play_by_play, Desc(et, offensive_team, 0))
      /\ pc' = "rebound"
      /\ UNCHANGED <<cfg, pre_score_stats, lineup, last_score_event_details, ball,
                     period, prev_len, offensive_team, ended_with_shot_attempt,
                     shooter, ft_i, passes_done, subs_pending, var_event_type,
                     final_score>>

BlockEffect(et, state, pA, pB, teamA, teamB) ==
    IF et = "block_on_2pt_shot" THEN block_on_2pt_shot(state, pA, pB, teamA, teamB)
    ELSE block_on_3pt_shot(state, pA, pB, teamA, teamB)

Block ==
    \E et \in {"block_on_2pt_shot", "block_on_3pt_shot"} :
      /\ Selected(et)
      /\ \E blocker \in Elems(game_lineups[defensive_team].active) :
           game_stats' = BlockEffect(et, game_stats, blocker, player_with_ball,
                                     defensive_team, offensive_team)
      /\ play_by_play' = LogAppend(play_by_play, Desc(et, defensive_team, 0))
      /\ pc' = "rebound"
      /\ UNCHANGED <<cfg, pre_score_stats, lineup, last_score_event_details, ball,
                     period, prev_len, offensive_team, ended_with_shot_attempt,
                     shooter, ft_i, passes_done, subs_pending, var_event_type,
                     final_score>>

\* a rebound taken by any player of the roster
Rebound_bad ==
    /\ pc = "rebound"
    /\ Open
    /\ \E rebound_type \in {"offensive", "defensive"} :
         LET rebound_team == IF rebound_type = "offensive" THEN offensive_team
                             ELSE defensive_team
         IN  \E rebounder \in Roster(rebound_team) :
               /\ game_stats' =
                      (IF rebound_type = "offensive"
                       THEN rebound_offensive(game_stats, rebounder, rebound_team)
                       ELSE rebound_defensive(game_stats, rebounder, rebound_team))
               /\ play_by_play' =
                      LogAppend(play_by_play,
                                Desc(IF rebound_type = "offensive" THEN "rebound_offensive"
                                     ELSE "rebound_defensive", rebound_team, 0))
               /\ possession' = rebound_team
               /\ player_with_ball' = rebounder
    /\ ended_with_shot_attempt' = TRUE
    /\ pc' = "bill"
    /\ UNCHANGED <<cfg, pre_score_stats, lineup, last_score_event_details, period,
                   prev_len, offensive_team, event_type, shooter, ft_i, passes_done,
                   subs_pending, var_event_type, final_score>>

\* rebound_type is "offensive" (weight 0.2) or "defensive" (weight 0.8)
Rebound ==
    /\ pc = "rebound"
    /\ Open
    /\ \E rebound_type \in {"offensive", "defensive"} :
         LET rebound_team == IF rebound_type = "offensive" THEN offensive_team
                             ELSE defensive_team
         IN  \E rebounder \in Elems(game_lineups[rebound_team].active) :
               /\ game_stats' =
                      (IF rebound_type = "offensive"
                       THEN rebound_offensive(game_stats, rebounder, rebound_team)
                       ELSE rebound_defensive(game_stats, rebounder, rebound_team))
               /\ play_by_play' =
                      LogAppend(play_by_play,
                                Desc(IF rebound_type = "offensive" THEN "rebound_offensive"
                                     ELSE "rebound_defensive", rebound_team, 0))
               /\ possession' = rebound_team
               /\ player_with_ball' = rebounder
    /\ ended_with_shot_attempt' = TRUE
    /\ pc' = "bill"
    /\ UNCHANGED <<cfg, pre_score_stats, lineup, last_score_event_details, period,
                   prev_len, offensive_team, event_type, shooter, ft_i, passes_done,
                   subs_pending, var_event_type, final_score>>

\* a steal that leaves the ball pointer on the player who lost the ball
Steal_kept ==
    /\ Selected("steal")
    /\ \E stealer \in Elems(game_lineups[defensive_team].active) :
         game_stats' = steal(game_stats, stealer, player_with_ball,
                             defensive_team, offensive_team)
    /\ play_by_play' = LogAppend(play_by_play, Desc("steal", defensive_team, 0))
    /\ possession' = defensive_team
    /\ pc' = "bill"
    /\ UNCHANGED <<cfg, pre_score_stats, lineup, last_score_event_details,
                   player_with_ball, period, prev_len, offensive_team,
                   ended_with_shot_attempt, shooter, ft_i, passes_done, subs_pending,
                   var_event_type, final_score>>

(***************************************************************************)
(* Steal (live ball) and bad-pass turnover (dead ball).                    *)
(***************************************************************************)
Steal ==
    /\ Selected("steal")
    /\ \E stealer \in Elems(game_lineups[defensive_team].active) :
         /\ game_stats' = steal(game_stats, stealer, player_with_ball,
                                defensive_team, offensive_team)
         /\ player_with_ball' = stealer
    /\ play_by_play' = LogAppend(play_by_play, Desc("steal", defensive_team, 0))
    /\ possession' = defensive_team
    /\ pc' = "bill"
    /\ UNCHANGED <<cfg, pre_score_stats, lineup, last_score_event_details, period,
                   prev_len, offensive_team, ended_with_shot_attempt, shooter, ft_i,
                   passes_done, subs_pending, var_event_type, final_score>>

\* a bad pass after which both teams may substitute
BadPass_bad ==
    /\ Selected("turnover_by_bad_pass")
    /\ game_stats' = turnover_by_bad_pass(game_stats, player_with_ball, offensive_team)
    /\ play_by_play' =
           LogAppend(play_by_play, Desc("turnover_by_bad_pass", offensive_team, 0))
    /\ possession' = defensive_team
    /\ subs_pending' = SubsForBothTeams
    /\ pc' = "subs"
    /\ UNCHANGED <<cfg, pre_score_stats, lineup, last_score_event_details,
                   player_with_ball, period, prev_len, offensive_team,
                   ended_with_shot_attempt, shooter, ft_i, passes_done, var_event_type,
                   final_score>>

BadPass ==
    /\ Selected("turnover_by_bad_pass")
    /\ game_stats' = turnover_by_bad_pass(game_stats, player_with_ball, offensive_team)
    /\ play_by_play' =
           LogAppend(play_by_play, Desc("turnover_by_bad_pass", offensive_team, 0))
    /\ possession' = defensive_team
    /\ subs_pending' =
           (IF cfg.allow_substitutions
            THEN <<[team |-> offensive_team, cant_sub_player |-> NoPlayer]>> ELSE <<>>)
    /\ pc' = "subs"
    /\ UNCHANGED <<cfg, pre_score_stats, lineup, last_score_event_details,
                   player_with_ball, period, prev_len, offensive_team,
                   ended_with_shot_attempt, shooter, ft_i, passes_done, var_event_type,
                   final_score>>

(***************************************************************************)
(* Shooting foul: effect, log line, immediate foul-out check of the        *)
(* defender, team foul; then the free throws.                              *)
(***************************************************************************)
FoulEffect(et, state, pA, pB, teamA, teamB) ==
    IF et = "shooting_foul_2pt" THEN shooting_foul_2pt(state, pA, pB, teamA, teamB)
    ELSE shooting_foul_3pt(state, pA, pB, teamA, teamB)

\* a shooting foul whose foul-out notices are logged before the foul itself
ShootingFoul_bad ==
    \E et \in shooting_foul_events :
      /\ Selected(et)
      /\ \E defender \in Elems(game_lineups[defensive_team].active) :
           IF ~_team_can_commit_fouls(defensive_team, game_lineups)
           THEN /\ pc' = "loop"
                /\ UNCHANGED <<game_stats, lineup, play_by_play, team_fouls_in_quarter,
                               ended_with_shot_attempt, shooter>>
           ELSE LET stats1 == FoulEffect(et, game_stats, player_with_ball, defender,
                                         offensive_team, defensive_team)
                IN  /\ game_stats' = stats1
                    /\ \E out \in _check_and_handle_foul_out(defensive_team, defender,
                              stats1, game_lineups, play_by_play, game_participants) :
                         /\ game_lineups' = out.game_lineups
                         /\ play_by_play' =
                                LogAppend(out.play_by_play, Desc(et, defensive_team, 0))
                         /\ game_participants' = out.game_participants
                    /\ team_fouls_in_quarter' =
                           [team_fouls_in_quarter EXCEPT ![defensive_team] = @ + 1]
                    /\ ended_with_shot_attempt' = TRUE
                    /\ shooter' = player_with_ball
                    /\ pc' = "ft"
      /\ ft_i' = 0
      /\ UNCHANGED <<cfg, pre_score_stats, last_score_event_details, ball,
                     quarter_starters, quarter_targets, quarter, billed_total,
                     billed_in_quarter, ot_num, target_events, prev_len,
                     offensive_team, passes_done, subs_pending, var_event_type,
                     final_score>>

ShootingFoul ==
    \E et \in shooting_foul_events :
      /\ Selected(et)
      /\ \E defender \in Elems(game_lineups[defensive_team].active) :
           IF ~_team_can_commit_fouls(defensive_team, game_lineups)
           THEN \* 'continue': the rest of the iteration is skipped
                /\ pc' = "loop"
                /\ UNCHANGED <<game_stats, lineup, play_by_play, team_fouls_in_quarter,
                               ended_with_shot_attempt, shooter>>
           ELSE LET stats1 == FoulEffect(et, game_stats, player_with_ball, defender,
                                         offensive_team, defensive_team)
                    log1 == LogAppend(play_by_play, Desc(et, defensive_team, 0))
                IN  /\ game_stats' = stats1
                    /\ \E out \in _check_and_handle_foul_out(defensive_team, defender,
                              stats1, game_lineups, log1, game_participants) :
                         /\ game_lineups' = out.game_lineups
                         /\ play_by_play' = out.play_by_play
                         /\ game_participants' = out.game_participants
                    /\ team_fouls_in_quarter' =
                           [team_fouls_in_quarter EXCEPT ![defensive_team] = @ + 1]
                    /\ ended_with_shot_attempt' = TRUE
                    /\ shooter' = player_with_ball
                    /\ pc' = "ft"
      /\ ft_i' = 0
      /\ UNCHANGED <<cfg, pre_score_stats, last_score_event_details, ball,
                     quarter_starters, quarter_targets, quarter, billed_total,
                     billed_in_quarter, ot_num, target_events, prev_len,
                     offensive_team, passes_done, subs_pending, var_event_type,
                     final_score>>

\* the two awards the wrong way round
num_shots_bad == IF event_type = "shooting_foul_3pt" THEN 2 ELSE 3

num_shots == IF event_type = "shooting_foul_3pt" THEN 3 ELSE 2

\* substitution opportunities that protect nobody
BetweenFreeThrows_bad ==
    IF cfg.allow_substitutions
    THEN <<[team |-> offensive_team, cant_sub_player |-> NoPlayer],
           [team |-> defensive_team, cant_sub_player |-> NoPlayer]>>
    ELSE <<>>

BetweenFreeThrows ==
    IF cfg.allow_substitutions
    THEN <<[team |-> offensive_team, cant_sub_player |-> shooter],
           [team |-> defensive_team, cant_sub_player |-> NoPlayer]>>
    ELSE <<>>

\* The i-th free throw (i = ft_i): made or missed with probability 1/2.
FreeThrow ==
    /\ \/ pc = "ft"
       \/ pc = "subs" /\ subs_pending = <<>> /\ event_type \in shooting_foul_events
    /\ Open
    /\ LET is_last_shot == (ft_i + 1) = num_shots
       IN  \E made \in BOOLEAN :
             /\ game_stats' = (IF made THEN ft_made(game_stats, shooter, offensive_team)
                               ELSE ft_missed(game_stats, shooter, offensive_team))
             /\ play_by_play' =
                    LogAppend(play_by_play,
                              Desc(IF made THEN "ft_made" ELSE "ft_missed",
                                   offensive_team, 0))
             /\ IF is_last_shot
                THEN /\ IF made
                        THEN /\ possession' = defensive_team
                             /\ player_with_ball' = NoPlayer
                             /\ pc' = "bill"
                        ELSE /\ pc' = "rebound"
                             /\ UNCHANGED ball
                     /\ UNCHANGED subs_pending
                ELSE /\ subs_pending' = BetweenFreeThrows
                     /\ pc' = "subs"
                     /\ UNCHANGED ball
    /\ ft_i' = ft_i + 1
    /\ UNCHANGED <<cfg, pre_score_stats, lineup, last_score_event_details, period,
                   prev_len, offensive_team, event_type, ended_with_shot_attempt,
                   shooter, passes_done, var_event_type, final_score>>


(***************************************************************************)
(* Event billing: the lines added by this iteration are counted against    *)
(* the period's budget; from Q4 on one unit is held back unless the play   *)
(* ended with a shot attempt.                                              *)
(***************************************************************************)
added_this_iter == Len(play_by_play) - prev_len

\* billing that never holds a unit back
bill_now_bad ==
    LET can_bill == Max(0, quarter_targets[quarter] - billed_in_quarter)
    IN  IF added_this_iter > 0 THEN Min(added_this_iter, can_bill) ELSE 0

bill_now ==
    LET can_bill == Max(0, quarter_targets[quarter] - billed_in_quarter)
        b == Min(added_this_iter, can_bill)
    IN  IF added_this_iter > 0
        THEN IF /\ quarter >= 4
                /\ ~ended_with_shot_attempt
                /\ billed_in_quarter + b >= quarter_targets[quarter]
             THEN Max(0, quarter_targets[quarter] - billed_in_quarter - 1)
             ELSE b
        ELSE 0

\* a quarter that closes on any play once its budget is used up
QuarterEnds_bad ==
    /\ quarter < 4
    /\ billed_in_quarter + bill_now >= quarter_targets[quarter]

QuarterEnds ==
    /\ quarter < 4
    /\ ended_with_shot_attempt
    /\ billed_in_quarter + bill_now >= quarter_targets[quarter]

\* an overtime only after an overtime, never after regulation
OvertimeDue_bad ==
    /\ billed_total + bill_now >= target_events
    /\ quarter > 4
    /\ game_stats[teamA_name].stats.points = game_stats[teamB_name].stats.points

OvertimeDue ==
    /\ billed_total + bill_now >= target_events
    /\ quarter >= 4
    /\ game_stats[teamA_name].stats.points = game_stats[teamB_name].stats.points

ResetLocals ==
    /\ prev_len' = 0
    /\ event_type' = None
    /\ ended_with_shot_attempt' = FALSE
    /\ shooter' = NoPlayer
    /\ ft_i' = 0
    /\ passes_done' = 0
    /\ subs_pending' = <<>>
    /\ var_event_type' = None
    /\ pre_score_stats' = game_stats

\* a quarter boundary that leaves the ball with whoever had it
QuarterBoundary_bad ==
    /\ pc = "bill"
    /\ QuarterEnds
    /\ billed_total' = billed_total + bill_now
    /\ play_by_play' =
           LogAppend(LogAppend(play_by_play, Desc("End of Q", "-", quarter)),
                     Desc("Start of Q", "-", quarter + 1))
    /\ quarter' = quarter + 1
    /\ billed_in_quarter' = 0
    /\ player_with_ball' = NoPlayer
    /\ team_fouls_in_quarter' = [t \in Teams |-> 0]
    /\ last_score_event_details' = NoScore
    /\ pc' = "loop"
    /\ ResetLocals
    /\ UNCHANGED <<cfg, game_stats, lineup, possession, quarter_starters,
                   quarter_targets, ot_num, target_events, offensive_team, final_score>>

QuarterBoundary ==
    /\ pc = "bill"
    /\ QuarterEnds
    /\ billed_total' = billed_total + bill_now
    /\ play_by_play' =
           LogAppend(LogAppend(play_by_play, Desc("End of Q", "-", quarter)),
                     Desc("Start of Q", "-", quarter + 1))
    /\ quarter' = quarter + 1
    /\ billed_in_quarter' = 0
    /\ possession' = quarter_starters[quarter + 1]
    /\ player_with_ball' = NoPlayer
    /\ team_fouls_in_quarter' = [t \in Teams |-> 0]
    /\ last_score_event_details' = NoScore
    /\ pc' = "loop"
    /\ ResetLocals
    /\ UNCHANGED <<cfg, game_stats, lineup, quarter_starters, quarter_targets, ot_num,
                   target_events, offensive_team, final_score>>

\* a new overtime of half a first quarter, without the minimum of 1
ot_cap_bad == quarter_targets[1] \div 2

ot_cap == Max(1, quarter_targets[1] \div 2)

\* an overtime that carries the team fouls over
Overtime_bad ==
    /\ pc = "bill"
    /\ ~QuarterEnds
    /\ OvertimeDue
    /\ LET closed == IF quarter = 4
                     THEN Desc("End of Q", "-", 4)
                     ELSE Desc("End of OT", "-", ot_num)
           log1 == IF (quarter = 4 \/ ot_num > 0) /\ ~HasLine(play_by_play, closed)
                   THEN LogAppend(play_by_play, closed)
                   ELSE play_by_play
           log2 == LogAppend(log1, Desc("ends in a tie", "-", ot_num + 1))
       IN  /\ ot_num' = ot_num + 1
           /\ target_events' = target_events + ot_cap
           /\ quarter_targets' = Append(quarter_targets, ot_cap)
           /\ billed_total' = billed_total + bill_now
           /\ billed_in_quarter' = 0
           /\ UNCHANGED team_fouls_in_quarter
           /\ \E win_team \in Teams :
                \E win_player \in Elems(game_lineups[win_team].active) :
                  /\ play_by_play' =
                         LogAppend(LogAppend(log2, Desc("overtime_jump_ball", win_team,
                                                        ot_num + 1)),
                                   Desc("Start of OT", "-", ot_num + 1))
                  /\ possession' = win_team
                  /\ player_with_ball' = win_player
           /\ quarter' = quarter + 1
    /\ last_score_event_details' = NoScore
    /\ pc' = "loop"
    /\ ResetLocals
    /\ UNCHANGED <<cfg, game_stats, lineup, quarter_starters, offensive_team,
                   final_score>>

Overtime ==
    /\ pc = "bill"
    /\ ~QuarterEnds
    /\ OvertimeDue
    /\ LET closed == IF quarter = 4
                     THEN Desc("End of Q", "-", 4)
                     ELSE Desc("End of OT", "-", ot_num)
           log1 == IF (quarter = 4 \/ ot_num > 0) /\ ~HasLine(play_by_play, closed)
                   THEN LogAppend(play_by_play, closed)
                   ELSE play_by_play
           log2 == LogAppend(log1, Desc("ends in a tie", "-", ot_num + 1))
       IN  /\ ot_num' = ot_num + 1
           /\ target_events' = target_events + ot_cap
           /\ quarter_targets' = Append(quarter_targets, ot_cap)
           /\ billed_total' = billed_total + bill_now
           /\ billed_in_quarter' = 0
           /\ team_fouls_in_quarter' = [t \in Teams |-> 0]
           /\ \E win_team \in Teams :
                \E win_player \in Elems(game_lineups[win_team].active) :
                  /\ play_by_play' =
                         LogAppend(LogAppend(log2, Desc("overtime_jump_ball", win_team,
                                                        ot_num + 1)),
                                   Desc("Start of OT", "-", ot_num + 1))
                  /\ possession' = win_team
                  /\ player_with_ball' = win_player
           /\ quarter' = quarter + 1
    /\ last_score_event_details' = NoScore
    /\ pc' = "loop"
    /\ ResetLocals
    /\ UNCHANGED <<cfg, game_stats, lineup, quarter_starters, offensive_team,
                   final_score>>

EndIteration ==
    /\ pc = "bill"
    /\ ~QuarterEnds
    /\ ~OvertimeDue
    /\ billed_in_quarter' = billed_in_quarter + bill_now
    /\ billed_total' = billed_total + bill_now
    /\ last_score_event_details' = NoScore
    /\ pc' = "loop"
    /\ ResetLocals
    /\ UNCHANGED <<cfg, game_stats, lineup, play_by_play, ball, quarter_starters,
                   quarter_targets, quarter, team_fouls_in_quarter, ot_num,
                   target_events, offensive_team, final_score>>

(***************************************************************************)
(* After the loop: closing markers, 'End of game.', and the true report's  *)
(* final_score built by __main__ from final_stats in key order.            *)
(***************************************************************************)
FinalScore(stats) ==
    [i \in 1..2 |-> [team |-> team_names[i], points |-> stats[team_names[i]].stats.points]]

\* a finish that closes regulation without looking for the marker
Finalize_twice ==
    /\ pc = "loop"
    /\ ~(billed_total < target_events)
    /\ LET log1 == LogAppend(play_by_play, Desc("End of Q", "-", 4))
           log2 == IF ot_num > 0 /\ ~HasLine(log1, Desc("End of OT", "-", ot_num))
                   THEN LogAppend(log1, Desc("End of OT", "-", ot_num))
                   ELSE log1
       IN  play_by_play' = LogAppend(log2, Desc("end_of_game", "-", 0))
    /\ final_score' = FinalScore(game_stats)
    /\ pc' = "done"
    /\ UNCHANGED <<cfg, ledger, lineup, last_score_event_details, ball, period, locals>>

Finalize ==
    /\ pc = "loop"
    /\ ~(billed_total < target_events)
    /\ LET log1 == IF quarter = 4 /\ ~HasLine(play_by_play, Desc("End of Q", "-", 4))
                   THEN LogAppend(play_by_play, Desc("End of Q", "-", 4))
                   ELSE play_by_play
           log2 == IF ot_num > 0 /\ ~HasLine(log1, Desc("End of OT", "-", ot_num))
                   THEN LogAppend(log1, Desc("End of OT", "-", ot_num))
                   ELSE log1
       IN  play_by_play' = LogAppend(log2, Desc("end_of_game", "-", 0))
    /\ final_score' = FinalScore(game_stats)
    /\ pc' = "done"
    /\ UNCHANGED <<cfg, ledger, lineup, last_score_event_details, ball, period, locals>>

Next ==
    \/ Inbound \/ NoInbound \/ PassBall
    \/ MadeShot \/ VarReview \/ NoVar \/ Substitution \/ ClearBall
    \/ Timeout \/ ResumeInbound
    \/ MissedShot \/ Block \/ Rebound
    \/ Steal \/ BadPass
    \/ ShootingFoul \/ FreeThrow
    \/ QuarterBoundary \/ Overtime \/ EndIteration
    \/ Finalize

(***************************************************************************)
(* The tiers explored.  Each switches on a part of the weight table and    *)
(* of the substitution / VAR / passing settings, and caps the log length   *)
(* so that the runs of the tier are few enough to enumerate.  PeriodTier   *)
(* plays whole games on the scaled target (one event per quarter) into     *)
(* overtime, and BudgetTier does so with plays that are not shot attempts; *)
(* the others play the opening of a game on the basic target, BenchTier    *)
(* until a bench has been emptied by foul-outs, FtSubTier through a        *)
(* free-throw sequence with substitutions, RemainderTiers through the      *)
(* first quarter boundary of a target that is not a multiple of four.      *)
(***************************************************************************)
BasicTarget == 150
HorizonGame == 22
HorizonVar == 7
HorizonFoul == 8
HorizonSubs == 13
HorizonLive == 5
HorizonAll == 5
HorizonBudget == 18
HorizonBench == 37
HorizonFtSub == 8
HorizonRem == 10

PeriodTier == Tier(0, 0, 50, {"assist_and_score_2pt"}, TargetEvents, HorizonGame)
VarTier == Tier(0, 0, 50, Successful_events, BasicTarget, HorizonVar)
FoulTier == Tier(0, 0, 0, shooting_foul_events, BasicTarget, HorizonFoul)
SubsTier == Tier(0, 10, 100, {"assist_and_score_2pt"}, BasicTarget, HorizonSubs)
LiveBallTier ==
    Tier(MaxPasses, 0, 0,
         {"steal", "turnover_by_bad_pass", "timeout", "miss_2pt_from_pass",
          "miss_3pt_from_pass", "block_on_2pt_shot", "block_on_3pt_shot"},
         BasicTarget, HorizonLive)
FullTier == Tier(MaxPasses, 10, 10, OFFENSIVE_EVENTS, BasicTarget, HorizonAll)
BudgetTier ==
    Tier(0, 0, 0, {"turnover_by_bad_pass", "assist_and_score_2pt"}, TargetEvents,
         HorizonBudget)
BenchTier == Tier(0, 0, 100, {"assist_and_score_2pt"}, BasicTarget, HorizonBench)
FtSubTier == Tier(0, 10, 0, {"shooting_foul_3pt"}, BasicTarget, HorizonFtSub)
\* targets that leave a remainder of 1, 2 and 3 events over the four quarters
RemainderTiers ==
    {Tier(0, 0, 0, {"assist_and_score_2pt"}, TargetEvents + r, HorizonRem) : r \in 1..3}

Tiers ==
    {PeriodTier, VarTier, FoulTier, SubsTier, LiveBallTier, FullTier, BudgetTier,
     BenchTier, FtSubTier} \cup RemainderTiers

Init == \E tier \in Tiers : Setup(tier)

Spec == Init /\ [][Next]_vars

(***************************************************************************)
(* The same program with the fairness its execution has: the loop is       *)
(* sequential code, so a step that can be taken is taken (weak fairness of *)
(* Next), and the weighted draw of the event kind gives every kind of      *)
(* positive weight a positive chance at every selection, so a shot attempt *)
(* that is selectable again and again is eventually selected (strong       *)
(* fairness of the shot-attempt branches).                                 *)
(***************************************************************************)
ShotAttempt == MadeShot \/ MissedShot \/ Block \/ ShootingFoul

\* a tier in which every play is a basket that stands: its games are played to
\* the end, the log length never reaching the cap
HorizonSure == 30
SureTier == Tier(0, 0, 0, {"assist_and_score_2pt"}, TargetEvents, HorizonSure)

\* the tiers that play whole games and the tiers that switch on every kind
\* of event
FairTiers == {SureTier, PeriodTier, BudgetTier, FullTier, LiveBallTier, FoulTier}

FairInit == \E tier \in FairTiers : Setup(tier)

FairSpec == FairInit /\ [][Next]_vars /\ WF_vars(Next) /\ SF_vars(ShotAttempt)

(***************************************************************************)
(* _handle_substitution on its own: one call on every lineup it can be     *)
(* handed (an active list of one player up to the starting size, any split *)
(* of the others between bench and disqualified, bench players who have or *)
(* have not played before), for either team, with or without a protected   *)
(* player (any player of the team who is not disqualified), at a chance    *)
(* that never passes, may pass or always passes.                           *)
(***************************************************************************)
SubChances == {0, 10, 100}

SubCallTiers == {Tier(0, c, 0, {}, BasicTarget, HorizonLive) : c \in SubChances}

SubCallLineups(t) ==
    {[active |-> ListOf(a), bench |-> ListOf(b),
      disqualified |-> ListOf((Roster(t) \ a) \ b)]
     : <<a, b>> \in {x \in (SUBSET Roster(t)) \X (SUBSET Roster(t)) :
                        /\ Cardinality(x[1]) \in 1..StartingFive
                        /\ x[2] \subseteq Roster(t) \ x[1]}}

SubCallSetup ==
    \E tier \in SubCallTiers : \E t \in Teams : \E l \in SubCallLineups(t) :
      \E played \in SUBSET Elems(l.bench) :
        \E cant \in Elems(l.active) \cup Elems(l.bench) \cup {NoPlayer} :
          /\ cfg = tier
          /\ game_lineups = [InitialLineups EXCEPT ![t] = l]
          /\ game_participants =
                 [u \in Teams |->
                     IF u = t
                     THEN Elems(l.active) \cup Elems(l.disqualified) \cup played
                     ELSE Elems(InitialLineups[u].active)]
          /\ game_stats = _initialize_stats
          /\ pre_score_stats = _initialize_stats
          /\ last_score_event_details = NoScore
          /\ possession = t
          /\ player_with_ball \in Elems(l.active)
          /\ quarter_starters = <<t, Other(t), t, Other(t)>>
          /\ play_by_play =
                 LogAppend(LogAppend(<<>>, Desc("jump_ball", t, 0)),
                           Desc("Start of Q", "-", 1))
          /\ target_events = tier.target_events
          /\ quarter_targets = QuarterTargets(tier.target_events)
          /\ quarter = 1
          /\ team_fouls_in_quarter = [u \in Teams |-> 0]
          /\ billed_total = 0
          /\ billed_in_quarter = 0
          /\ ot_num = 0
          /\ pc = "subs"
          /\ prev_len = Len(play_by_play)
          /\ offensive_team = t
          /\ event_type = None
          /\ ended_with_shot_attempt = FALSE
          /\ shooter = cant
          /\ ft_i = 0
          /\ passes_done = 0
          /\ subs_pending = <<[team |-> t, cant_sub_player |-> cant]>>
          /\ var_event_type = None
          /\ final_score = <<>>

SubCallSpec == SubCallSetup /\ [][Substitution]_vars

(***************************************************************************)
(* _force_foul_out_substitution on its own: one call for a player of the   *)
(* active list or of the bench, on every lineup of the team (an active     *)
(* list of one player up to the starting size, any split of the others     *)
(* between bench and disqualified, the bench empty included).              *)
(***************************************************************************)
FoulOutCallSetup ==
    \E t \in Teams : \E l \in SubCallLineups(t) :
      \E played \in SUBSET Elems(l.bench) :
        \E player_out \in Elems(l.active) \cup Elems(l.bench) :
          /\ cfg = FoulTier
          /\ game_lineups = [InitialLineups EXCEPT ![t] = l]
          /\ game_participants =
                 [u \in Teams |->
                     IF u = t
                     THEN Elems(l.active) \cup Elems(l.disqualified) \cup played
                     ELSE Elems(InitialLineups[u].active)]
          /\ game_stats = _initialize_stats
          /\ pre_score_stats = _initialize_stats
          /\ last_score_event_details = NoScore
          /\ possession = Other(t)
          /\ player_with_ball \in Elems(InitialLineups[Other(t)].active)
          /\ quarter_starters = <<t, Other(t), t, Other(t)>>
          /\ play_by_play =
                 LogAppend(LogAppend(<<>>, Desc("jump_ball", t, 0)),
                           Desc("Start of Q", "-", 1))
          /\ target_events = cfg.target_events
          /\ quarter_targets = QuarterTargets(cfg.target_events)
          /\ quarter = 1
          /\ team_fouls_in_quarter = [u \in Teams |-> 0]
          /\ billed_total = 0
          /\ billed_in_quarter = 0
          /\ ot_num = 0
          /\ pc = "foul_out_call"
          /\ prev_len = Len(play_by_play)
          /\ offensive_team = Other(t)
          /\ event_type = None
          /\ ended_with_shot_attempt = FALSE
          /\ shooter = player_out
          /\ ft_i = 0
          /\ passes_done = 0
          /\ subs_pending = <<>>
          /\ var_event_type = None
          /\ final_score = <<>>

\* the call _force_foul_out_substitution(defensive_team, shooter, ...)
ForceFoulOutCall ==
    /\ pc = "foul_out_call"
    /\ \E out \in _force_foul_out_substitution(defensive_team, shooter, game_lineups,
                      play_by_play, game_participants) :
         /\ game_lineups' = out.game_lineups
         /\ play_by_play' = out.play_by_play
         /\ game_participants' = out.game_participants
    /\ pc' = "foul_out_return"
    /\ UNCHANGED <<cfg, ledger, last_score_event_details, ball, period, prev_len,
                   offensive_team, event_type, ended_with_shot_attempt, shooter, ft_i,
                   passes_done, subs_pending, var_event_type, final_score>>

FoulOutCallSpec == FoulOutCallSetup /\ [][ForceFoulOutCall]_vars

(***************************************************************************)
(* Properties of the engine.                                               *)
(***************************************************************************)
StatBlocks(stats) ==
    {stats[t].stats : t \in Teams}
        \cup UNION {{stats[t].players[p] : p \in Roster(t)} : t \in Teams}

ShotCounters ==
    {<<"2pt_shots_made", "2pt_shots_attempted">>,
     <<"3pt_shots_made", "3pt_shots_attempted">>,
     <<"ft_made", "ft_attempted">>}

Kind(i) == play_by_play[i].description.kind
LineTeam(i) == play_by_play[i].description.team
Lines == 1..Len(play_by_play)
LastKind == Kind(Len(play_by_play))
NewLines == SubSeq(play_by_play', Len(play_by_play) + 1, Len(play_by_play'))

var_events ==
    {"var_overturn_2pt", "var_overturn_3pt", "var_overturn_3pt_another",
     "var_change_3_to_2"}
overturn_3pt_events == {"var_overturn_3pt", "var_overturn_3pt_another"}
overturn_events == {"var_overturn_2pt"} \cup overturn_3pt_events

\* C1: in every state, for every team and every player, each of the 2pt, 3pt
\* and free-throw attempted counters is at least the matching made counter,
\* VAR corrections included.
C1_ShotConsistency ==
    \A b \in StatBlocks(game_stats) : \A c \in ShotCounters : b[c[2]] >= b[c[1]]

\* a VAR correction has been applied and a team still holds made baskets
C1_Witness ==
    /\ \E i \in Lines : Kind(i) \in var_events
    /\ \E t \in Teams :
         game_stats[t].stats["2pt_shots_made"] + game_stats[t].stats["3pt_shots_made"] > 0

\* C2: in every state, for each team, active, bench and disqualified are
\* duplicate-free, pairwise disjoint, and together hold exactly the roster.
C2_RosterPartition ==
    \A t \in Teams : \A p \in AllPlayers :
        game_lineups[t].active[p] + game_lineups[t].bench[p]
            + game_lineups[t].disqualified[p] = (IF p \in Roster(t) THEN 1 ELSE 0)

\* a team has a disqualified player and a voluntary substitution was made
C2_Witness ==
    /\ \E t \in Teams : Elems(game_lineups[t].disqualified) # {}
    /\ \E i \in Lines : Kind(i) = "substitution"

\* C3: a player who is in disqualified stays there in every later state and is
\* in neither active nor bench afterwards, whatever step is taken.
C3_Step ==
    \A t \in Teams : \A p \in Roster(t) :
        In(p, game_lineups[t].disqualified) =>
            /\ In(p, game_lineups'[t].disqualified)
            /\ ~In(p, game_lineups'[t].active)
            /\ ~In(p, game_lineups'[t].bench)

C3_DisqualifiedNeverReturns == [][C3_Step]_vars

\* a team substituted voluntarily after one of its players had fouled out
C3_Witness ==
    \E i \in Lines : \E j \in Lines :
        /\ i < j
        /\ Kind(i) = "foul_out"
        /\ Kind(j) = "substitution"
        /\ LineTeam(i) = LineTeam(j)

\* C4: a step in which a player's fouls reach FOUL_LIMIT while the team's bench
\* is non-empty moves that player to disqualified and moves exactly one bench
\* player to active and into the participants, in that same step.
C4_Step ==
    \A t \in Teams : \A p \in Roster(t) :
        (/\ game_stats[t].players[p].fouls < FOUL_LIMIT
         /\ game_stats'[t].players[p].fouls >= FOUL_LIMIT
         /\ Elems(game_lineups[t].bench) # {})
        => /\ In(p, game_lineups'[t].disqualified)
           /\ ~In(p, game_lineups'[t].active)
           /\ \E q \in Elems(game_lineups[t].bench) :
                /\ game_lineups'[t].active =
                       ListAppend(ListRemove(game_lineups[t].active, p), q)
                /\ game_lineups'[t].bench = ListRemove(game_lineups[t].bench, q)
                /\ game_participants'[t] = game_participants[t] \cup {q}

C4_FoulOutReplaced == [][C4_Step]_vars

\* a VAR-created offensive foul has fouled the scorer out and a replacement came in
C4_Witness ==
    \E i \in Lines :
        /\ i + 2 <= Len(play_by_play)
        /\ Kind(i) = "var_overturn_2pt"
        /\ Kind(i + 1) = "foul_out"
        /\ Kind(i + 2) = "substitution_fouled_out"

Points(t) == game_stats[t].stats.points
Tied == Points(teamA_name) = Points(teamB_name)

\* C5: the loop is left only with Q4 or an overtime fully billed and the two
\* teams' points different; while the points are equal at the head of the
\* loop from Q4 on, the budget is not exhausted (an overtime has extended
\* it), so the final stats are never tied.
C5_NoTieAtEnd ==
    /\ pc = "done" =>
         /\ ~Tied
         /\ quarter >= 4
         /\ billed_in_quarter >= quarter_targets[quarter]
         /\ billed_total >= target_events
    /\ (pc = "loop" /\ quarter >= 4 /\ Tied) => billed_total < target_events

\* a game that went to overtime has ended
C5_Witness == pc = "done" /\ ot_num >= 1

\* C6: the step that appends an overtime adds a period of budget
\* max(1, quarter_targets[0] // 2), raises target_events by the same amount,
\* resets billed_in_quarter and both team-foul counters to 0, and gives
\* possession to the logged jump-ball winner with the ball in the hands of an
\* active player of that team; the play after "Start of OT" opens without an
\* inbound pass.
C6_Step ==
    /\ ot_num' # ot_num =>
         LET n == Len(play_by_play')
             cap == Max(1, quarter_targets[1] \div 2)
         IN  /\ ot_num' = ot_num + 1
             /\ quarter_targets' = Append(quarter_targets, cap)
             /\ target_events' = target_events + cap
             /\ billed_in_quarter' = 0
             /\ \A t \in Teams : team_fouls_in_quarter'[t] = 0
             /\ play_by_play'[n].description = Desc("Start of OT", "-", ot_num')
             /\ play_by_play'[n - 1].description.kind = "overtime_jump_ball"
             /\ possession' = play_by_play'[n - 1].description.team
             /\ player_with_ball' \in Elems(game_lineups'[possession'].active)
    /\ (LastKind = "Start of OT" /\ Len(play_by_play') > Len(play_by_play)) =>
         NewLines[1].description.kind # "inbound_pass"

C6_OvertimeSetup == [][C6_Step]_vars

\* an overtime has begun right after a play that charged a team foul
C6_Witness ==
    /\ Len(play_by_play) >= 5
    /\ LastKind = "Start of OT"
    /\ Kind(Len(play_by_play) - 4) = "var_overturn_2pt"

\* C7: the log is numbered by position: the i-th record has event_id i.
C7_EventIds == \A i \in Lines : play_by_play[i].event_id = i

\* a finished game whose log holds period markers, plays and notices
C7_Witness == LastKind = "end_of_game" /\ Len(play_by_play) >= 12

non_effect_kinds ==
    {"timeout", "game_resume", "inbound_pass", "pass_ball", "jump_ball",
     "overtime_jump_ball", "substitution", "substitution_fouled_out", "foul_out",
     "short_handed", "Start of Q", "End of Q", "Start of OT", "End of OT",
     "ends in a tie", "end_of_game"}

\* C8: a step that logs only timeout, resume, inbound, pass, jump-ball,
\* substitution, foul-out or period-marker lines leaves every counter as it
\* was; a foul-out notice logged together with its foul changes nothing
\* beyond the foul's own effect.
C8_Step ==
    /\ (\A i \in 1..Len(NewLines) : NewLines[i].description.kind \in non_effect_kinds)
           => game_stats' = game_stats
    /\ (/\ Len(NewLines) > 1
        /\ NewLines[1].description.kind \in shooting_foul_events)
           => \E pA \in Roster(offensive_team) : \E pB \in Roster(defensive_team) :
                game_stats' = FoulEffect(NewLines[1].description.kind, game_stats,
                                         pA, pB, offensive_team, defensive_team)
    /\ (/\ Len(NewLines) > 1
        /\ NewLines[1].description.kind = "var_overturn_2pt")
           => game_stats' = var_overturn_2pt(game_stats, last_score_event_details.pA,
                                             last_score_event_details.pB,
                                             last_score_event_details.team)

C8_NonEffectLines == [][C8_Step]_vars

\* play has resumed after a timeout with turnovers already on the ledger
C8_Witness ==
    /\ Len(play_by_play) >= 3
    /\ LastKind = "inbound_pass"
    /\ Kind(Len(play_by_play) - 1) = "game_resume"
    /\ \E t \in Teams : game_stats[t].stats.turnovers > 0

VarApplied ==
    /\ var_event_type # None
    /\ \E i \in Lines : i > prev_len /\ Kind(i) = var_event_type

restored_keys ==
    {"points", "2pt_shots_made", "2pt_shots_attempted", "3pt_shots_made",
     "3pt_shots_attempted"}

\* C9: once an overturn has been applied to the basket just scored, the
\* scoring team's and the scorer's points and made and attempted shot
\* counters, and the team's and the passer's assists, are what they were
\* before the basket; the scorer and the team carry one more turnover, and
\* one more foul for the 2pt overturn; no counter is ever negative.
C9_OverturnRestores ==
    /\ \A b \in StatBlocks(game_stats) : \A k \in StatKeys : b[k] >= 0
    /\ (VarApplied /\ var_event_type \in overturn_events) =>
         LET d == last_score_event_details
             now == game_stats[d.team]
             pre == pre_score_stats[d.team]
             foul == IF var_event_type = "var_overturn_2pt" THEN 1 ELSE 0
         IN  /\ \A k \in restored_keys \cup {"assists"} : now.stats[k] = pre.stats[k]
             /\ \A k \in restored_keys : now.players[d.pB][k] = pre.players[d.pB][k]
             /\ now.players[d.pA].assists = pre.players[d.pA].assists
             /\ now.stats.turnovers = pre.stats.turnovers + 1
             /\ now.players[d.pB].turnovers = pre.players[d.pB].turnovers + 1
             /\ now.stats.fouls = pre.stats.fouls + foul
             /\ now.players[d.pB].fouls = pre.players[d.pB].fouls + foul

\* a 2pt basket of a scorer who already had points has been overturned
C9_Witness ==
    /\ VarApplied
    /\ var_event_type = "var_overturn_2pt"
    /\ pre_score_stats[last_score_event_details.team]
           .players[last_score_event_details.pB].points > 0

Count(kinds, t) ==
    Cardinality({i \in Lines : Kind(i) \in kinds /\ LineTeam(i) = t})

\* C10: in every state each team's points equal 2 per logged made 2pt basket,
\* 3 per logged made 3pt basket and 1 per logged made free throw, less 2 per
\* logged 2pt overturn, 3 per logged 3pt overturn and 1 per logged 3-to-2
\* downgrade; final_score lists the two teams in matchup order, each with
\* the points of its final stats.
C10_PointsReplay ==
    /\ \A t \in Teams :
         Points(t) = 2 * Count(Successful_2pt_events, t)
                     + 3 * Count(Successful_3pt_events, t)
                     + Count({"ft_made"}, t)
                     - 2 * Count({"var_overturn_2pt"}, t)
                     - 3 * Count(overturn_3pt_events, t)
                     - Count({"var_change_3_to_2"}, t)
    /\ pc = "done" =>
         final_score = <<[team |-> teamA_name, points |-> Points(teamA_name)],
                         [team |-> teamB_name, points |-> Points(teamB_name)]>>

\* a finished game in which both teams scored and a basket was overturned
C10_Witness ==
    /\ pc = "done"
    /\ \E i \in Lines : Kind(i) \in overturn_events
    /\ \A t \in Teams : Points(t) > 0

ft_kinds == {"ft_made", "ft_missed"}
rebound_kinds == {"rebound_offensive", "rebound_defensive"}
CountAll(kinds) == Cardinality({i \in Lines : Kind(i) \in kinds})
LinesThisIter(kinds) == Cardinality({i \in Lines : i > prev_len /\ Kind(i) \in kinds})
ShotsAwarded == IF event_type = "shooting_foul_3pt" THEN 3 ELSE 2
InFreeThrows == event_type \in shooting_foul_events /\ pc \in {"ft", "subs"}

C11_State ==
    /\ InFreeThrows =>
         /\ LinesThisIter(ft_kinds) = ft_i
         /\ ft_i < ShotsAwarded
         /\ possession = offensive_team
         /\ player_with_ball = shooter
    /\ (event_type \in shooting_foul_events /\ pc \in {"rebound", "bill"}) =>
         /\ LinesThisIter(ft_kinds) = ShotsAwarded
         /\ LinesThisIter(shooting_foul_events) = 1
    /\ (event_type \notin shooting_foul_events /\ pc \notin {"loop", "done"}) =>
         LinesThisIter(ft_kinds) = 0
    /\ pc \in {"loop", "done"} =>
         CountAll(ft_kinds) = 3 * CountAll({"shooting_foul_3pt"})
                              + 2 * CountAll({"shooting_foul_2pt"})

C11_Step ==
    /\ (Len(NewLines) = 1 /\ NewLines[1].description.kind \in ft_kinds) =>
         IF ft_i + 1 < ShotsAwarded
         THEN /\ possession' = possession
              /\ player_with_ball' = player_with_ball
              /\ pc' = "subs"
         ELSE IF NewLines[1].description.kind = "ft_made"
         THEN /\ possession' = defensive_team
              /\ player_with_ball' = NoPlayer
              /\ pc' = "bill"
         ELSE /\ possession' = possession
              /\ player_with_ball' = player_with_ball
              /\ pc' = "rebound"
    /\ (pc = "rebound" /\ event_type \in shooting_foul_events
        /\ Len(play_by_play') > Len(play_by_play)) =>
         /\ Len(NewLines) = 1
         /\ NewLines[1].description.kind \in rebound_kinds
         /\ NewLines[1].description.team =
                (IF NewLines[1].description.kind = "rebound_offensive"
                 THEN offensive_team ELSE defensive_team)
         /\ possession' = NewLines[1].description.team
         /\ player_with_ball' \in Elems(game_lineups[possession'].active)
         /\ game_stats'[possession'].players[player_with_ball'].rebounds =
                game_stats[possession'].players[player_with_ball'].rebounds + 1
         /\ pc' = "bill"

\* C11: a shooting foul on a 3-point attempt is followed, in its own loop
\* iteration, by exactly 3 free-throw lines and one on a 2-point attempt by
\* exactly 2; a free throw that is not the last leaves possession and ball
\* holder as they are; the last one, if made, gives possession to the
\* defensive team and clears the ball pointer, and if missed is followed by
\* one rebound line that gives possession and ball to the rebounding team and
\* the rebounder.
C11_FreeThrows == []C11_State /\ [][C11_Step]_vars

\* three free throws after a 3-point foul, the last one missed and rebounded
C11_Witness ==
    /\ pc = "bill"
    /\ event_type = "shooting_foul_3pt"
    /\ LastKind \in rebound_kinds
    /\ LinesThisIter(ft_kinds) = 3

Remaining == quarter_targets[quarter] - billed_in_quarter
Consumed == billed_total' - billed_total
PeriodCloses == quarter' # quarter \/ (pc = "bill" /\ billed_total' >= target_events')

C12_BudgetConsumed ==
    /\ PeriodCloses =>
         /\ pc = "bill"
         /\ Consumed = Remaining
         /\ ended_with_shot_attempt
         /\ quarter >= 4 => Remaining > 0
    /\ (quarter >= 4 /\ Remaining > 0 /\ Consumed >= Remaining) => ended_with_shot_attempt
    /\ Consumed <= Max(0, Remaining)

\* C12, as amended: a period (Q1..Q4, each overtime) ends only once its budget
\* is fully consumed and only at the end of a loop iteration that ended with
\* a shot attempt; in Q4 and in overtime that iteration is also the one that
\* consumed the last unit of the budget.
C12_PeriodEnd ==
    [][C12_BudgetConsumed]_vars
        /\ [](pc = "done" => billed_in_quarter = quarter_targets[quarter])

\* a game has ended whose fourth quarter held a bad-pass turnover
C12_Witness ==
    /\ pc = "done"
    /\ \E i \in Lines : \E j \in Lines :
         /\ i < j
         /\ play_by_play[i].description = Desc("Start of Q", "-", 4)
         /\ Kind(j) = "turnover_by_bad_pass"

\* C12, as claimed: in every period, the loop iteration that consumes the last
\* unit of the budget ended with a shot attempt.
C12_LastUnitByShot ==
    [][(Remaining > 0 /\ Consumed >= Remaining) => ended_with_shot_attempt]_vars

jump_ball_winner == LineTeam(1)
StartingTeam(q) == IF q % 2 = 1 THEN jump_ball_winner ELSE Other(jump_ball_winner)

C13_Step ==
    /\ (quarter' # quarter /\ quarter' <= 4) =>
         /\ possession' = StartingTeam(quarter')
         /\ player_with_ball' = NoPlayer
         /\ play_by_play'[Len(play_by_play')].description =
                Desc("Start of Q", "-", quarter')
    /\ (LastKind = "Start of Q" /\ quarter > 1
        /\ Len(play_by_play') > Len(play_by_play)) =>
         /\ NewLines[1].description = Desc("inbound_pass", StartingTeam(quarter), 0)
         /\ player_with_ball' \in Elems(game_lineups[StartingTeam(quarter)].active)

\* C13: Q1 and Q3 start with the opening jump-ball winner in possession, Q2 and
\* Q4 with the other team, whoever held the ball when the previous quarter
\* ended; each quarter boundary clears the ball pointer, so the first line
\* logged in Q2, Q3 and Q4 is an inbound pass by the starting team.
C13_QuarterStart ==
    [](Len(play_by_play) = 2 =>
          /\ quarter = 1
          /\ possession = jump_ball_winner
          /\ player_with_ball \in Elems(game_lineups[jump_ball_winner].active))
        /\ [][C13_Step]_vars

\* a quarter has started with the team that scored last, not the team that
\* was about to inbound
C13_Witness ==
    /\ Len(play_by_play) >= 5
    /\ LastKind = "Start of Q"
    /\ Kind(Len(play_by_play) - 2) = "assist_and_score_2pt"
    /\ LineTeam(Len(play_by_play) - 2) = possession
    /\ quarter = 3

Fouls(stats, t, p) == stats[t].players[p].fouls
BenchEmpty(t) == Elems(game_lineups[t].bench) = {}

C14_Step ==
    /\ \A t \in Teams : \A p \in Roster(t) :
         Fouls(game_stats', t, p) > Fouls(game_stats, t, p) => ~BenchEmpty(t)
    /\ \A t \in Teams :
         game_stats'[t].stats.fouls > game_stats[t].stats.fouls => ~BenchEmpty(t)
    /\ (/\ pc = "var"
        /\ last_score_event_details.type \in Successful_2pt_events
        /\ BenchEmpty(last_score_event_details.team)) =>
         /\ game_stats' = game_stats
         /\ play_by_play' = play_by_play
         /\ game_lineups' = game_lineups
         /\ team_fouls_in_quarter' = team_fouls_in_quarter
    /\ (pc = "passes" /\ BenchEmpty(defensive_team)) =>
         event_type' \notin shooting_foul_events

\* C14: no step charges a personal foul to a player, or a foul to a team,
\* whose bench is empty before the step: with the defensive team's bench
\* empty no shooting foul is in the filtered table or selected, and with the
\* scoring team's bench empty the review of a 2pt basket changes neither
\* the ledger nor the log nor the lineups.
C14_NoFoulWithoutBench ==
    []((pc = "passes" /\ BenchEmpty(defensive_team)) =>
           Pairs \cap shooting_foul_events = {})
        /\ [][C14_Step]_vars

\* a team without bench has scored a 2pt basket and the review was skipped
C14_Witness ==
    /\ pc = "subs"
    /\ event_type \in Successful_2pt_events
    /\ var_event_type = "var_overturn_2pt"
    /\ BenchEmpty(offensive_team)
    /\ LastKind = event_type
    /\ LineTeam(Len(play_by_play)) = offensive_team

RECURSIVE SumOver(_, _, _)
SumOver(players, k, S) ==
    IF S = {} THEN 0
    ELSE LET p == CHOOSE q \in S : TRUE
         IN  players[p][k] + SumOver(players, k, S \ {p})

\* C15: in every state, for each team and each of the fifteen counters, the
\* team's counter equals the sum of that counter over the players of the
\* team's roster, VAR corrections included.
C15_TeamIsSumOfPlayers ==
    \A t \in Teams : \A k \in StatKeys :
        game_stats[t].stats[k] = SumOver(game_stats[t].players, k, Roster(t))

\* a 3pt basket has been downgraded and both teams hold points
C15_Witness ==
    /\ \E i \in Lines : Kind(i) = "var_change_3_to_2"
    /\ \A t \in Teams : Points(t) > 0

C16_Start ==
    \A t \in Teams :
        /\ game_participants[t] = Elems(game_lineups[t].active)
        /\ Cardinality(game_participants[t]) = StartingFive

C16_Step ==
    \A t \in Teams :
        game_participants'[t] = game_participants[t] \cup Elems(game_lineups'[t].active)

C16_State ==
    \A t \in Teams :
        /\ Elems(game_lineups[t].active) \subseteq game_participants[t]
        /\ Elems(game_lineups[t].disqualified) \subseteq game_participants[t]
        /\ game_participants[t] \subseteq Roster(t)

\* C16: a team's participants are its starters at the start, and every step
\* adds to them exactly the players that the step leaves in the team's active
\* lineup, so that at every state participants is the set of players who
\* have been active so far; active and disqualified are always subsets of it.
C16_Participants == C16_Start /\ [][C16_Step]_vars /\ []C16_State

\* a team has used a foul-out replacement and a voluntary substitution, and
\* one of its participants now sits on the bench
C16_Witness ==
    \E t \in Teams :
        /\ \E i \in Lines : Kind(i) = "substitution_fouled_out" /\ LineTeam(i) = t
        /\ \E i \in Lines : Kind(i) = "substitution" /\ LineTeam(i) = t
        /\ Cardinality(game_participants[t]) > StartingFive + 1
        /\ \E p \in game_participants[t] : In(p, game_lineups[t].bench)

C17_Step ==
    \A t \in Teams : \A p \in Roster(t) :
        game_stats'[t].players[p] # game_stats[t].players[p]
            => In(p, game_lineups[t].active)

C17_State ==
    /\ \A t \in Teams : \A p \in Roster(t) \ game_participants[t] :
         game_stats[t].players[p] = ZeroStats
    /\ (pc = "loop" /\ player_with_ball # NoPlayer) =>
         In(player_with_ball, game_lineups[possession].active)
    /\ pc = "passes" => In(player_with_ball, game_lineups[offensive_team].active)
    /\ pc = "var" =>
         /\ In(last_score_event_details.pA,
               game_lineups[last_score_event_details.team].active)
         /\ In(last_score_event_details.pB,
               game_lineups[last_score_event_details.team].active)

\* C17: a step changes a player's statistic record only if the player is in
\* the active lineup of the record's team before the step; the ball holder
\* at the head of a play and the passer and scorer under review are active
\* players of their team; every roster player who is not in participants
\* has an all-zero record, at the end of the game in particular.
C17_CreditsToActive == []C17_State /\ [][C17_Step]_vars

\* a game has ended in which a replacement came in for a fouled-out player
\* and a roster player never entered
C17_Witness ==
    /\ pc = "done"
    /\ \E i \in Lines : Kind(i) = "substitution_fouled_out"
    /\ \E t \in Teams : \E p \in Roster(t) :
         /\ p \notin game_participants[t]
         /\ game_stats[t].players[p] = ZeroStats

C18_Step ==
    (pc = "subs" /\ subs_pending # <<>> /\ subs_pending' # subs_pending) =>
      LET t == Head(subs_pending).team
          protected == Head(subs_pending).cant_sub_player
          act == Elems(game_lineups[t].active)
          bench == Elems(game_lineups[t].bench)
          eligible == act \ {protected}
          feasible == bench # {} /\ eligible # {}
          chance == cfg.difficulty_sub_chance
          n == Len(play_by_play)
          Nothing ==
              /\ game_lineups' = game_lineups
              /\ game_participants' = game_participants
              /\ play_by_play' = play_by_play
          Swap ==
              \E player_out \in eligible : \E player_in \in bench :
                /\ game_lineups' =
                       [game_lineups EXCEPT
                          ![t].active = ListOf((act \ {player_out}) \cup {player_in}),
                          ![t].bench = ListOf((bench \ {player_in}) \cup {player_out})]
                /\ game_participants' =
                       [game_participants EXCEPT ![t] = @ \cup {player_in}]
                /\ Len(play_by_play') = n + 1
                /\ SubSeq(play_by_play', 1, n) = play_by_play
                /\ play_by_play'[n + 1].description = Desc("substitution", t, 0)
      IN  /\ Swap \/ Nothing
          /\ Swap => feasible /\ chance > 0
          /\ ~feasible => Nothing
          /\ chance = 0 => Nothing
          /\ (chance = 100 /\ feasible) => Swap
          /\ ListLen(game_lineups'[t].active) = ListLen(game_lineups[t].active)
          /\ ListLen(game_lineups'[t].bench) = ListLen(game_lineups[t].bench)
          /\ game_lineups'[t].disqualified = game_lineups[t].disqualified
          /\ game_stats' = game_stats

\* C18: a call of _handle_substitution whose chance passes, with a bench
\* player and an active player other than the protected one available, swaps
\* exactly one such active player with exactly one bench player (active and
\* bench keep their sizes, disqualified is untouched), adds the entering
\* player to participants and appends exactly one log line; a call whose
\* chance fails, or with an empty bench, or with no eligible active player,
\* changes neither lineups nor participants nor log.
C18_Substitution == [][C18_Step]_vars

\* a swap was made around a protected player by a team that has a
\* disqualified player
C18_Witness ==
    /\ pc = "subs"
    /\ subs_pending = <<>>
    /\ LastKind = "substitution"
    /\ shooter # NoPlayer
    /\ In(shooter, game_lineups[offensive_team].active)
    /\ LineTeam(Len(play_by_play)) = offensive_team
    /\ Elems(game_lineups[offensive_team].disqualified) # {}

C19_State ==
    /\ InFreeThrows =>
         /\ shooter # NoPlayer
         /\ In(shooter, game_lineups[offensive_team].active)
    /\ (event_type \in shooting_foul_events /\ pc \in {"rebound", "bill"}) =>
         \A i \in Lines :
             (i > prev_len /\ Kind(i) = "substitution")
                 => \E j \in Lines : j > i /\ Kind(j) \in ft_kinds

C19_Step ==
    (Len(NewLines) = 1 /\ NewLines[1].description.kind \in ft_kinds) =>
        /\ In(shooter, game_lineups[offensive_team].active)
        /\ NewLines[1].description.team = offensive_team
        /\ game_stats'[offensive_team].players[shooter].ft_attempted =
               game_stats[offensive_team].players[shooter].ft_attempted + 1
        /\ IF ft_i + 1 < ShotsAwarded
           THEN /\ Len(subs_pending') = 2
                /\ subs_pending'[1].team = offensive_team
                /\ subs_pending'[2].team = defensive_team
           ELSE subs_pending' = <<>>

\* C19: from the shooting foul until the last free throw has been taken the
\* shooter is in the offensive team's active lineup and takes every free
\* throw; after each free throw but the last both teams get a substitution
\* opportunity, and after the last one no substitution is logged.
C19_ShooterStays == []C19_State /\ [][C19_Step]_vars

\* the shooting team substituted between two free throws and the shooter took
\* the last one
C19_Witness ==
    /\ event_type \in shooting_foul_events
    /\ pc \in {"rebound", "bill"}
    /\ \E i \in Lines :
         /\ i > prev_len
         /\ Kind(i) = "substitution"
         /\ LineTeam(i) = offensive_team
    /\ game_stats[offensive_team].players[shooter].ft_attempted = ShotsAwarded

VariantsAfter(basket) ==
    IF basket \in Successful_2pt_events THEN {"var_overturn_2pt"}
    ELSE IF basket \in Successful_3pt_events
    THEN {"var_overturn_3pt", "var_overturn_3pt_another", "var_change_3_to_2"}
    ELSE {}

C20_State ==
    /\ pc \in {"loop", "passes", "done"} => last_score_event_details = NoScore
    /\ \A i \in Lines :
         Kind(i) \in var_events =>
             /\ i > 1
             /\ Kind(i - 1) \in Successful_events
             /\ Kind(i) \in VariantsAfter(Kind(i - 1))
             /\ LineTeam(i) = LineTeam(i - 1)

C20_Step ==
    /\ (Len(NewLines) >= 1 /\ NewLines[1].description.kind \in Successful_events) =>
         /\ last_score_event_details'.type = NewLines[1].description.kind
         /\ last_score_event_details'.team = offensive_team
         /\ last_score_event_details'.pA = player_with_ball
         /\ game_stats'[offensive_team].players[last_score_event_details'.pB].points >
                game_stats[offensive_team].players[last_score_event_details'.pB].points
    /\ (Len(NewLines) >= 1 /\ NewLines[1].description.kind \in var_events) =>
         LET d == last_score_event_details
         IN  /\ pc = "var"
             /\ Len(play_by_play) > prev_len
             /\ LastKind = d.type
             /\ LineTeam(Len(play_by_play)) = d.team
             /\ NewLines[1].description.team = d.team
             /\ game_stats'[Other(d.team)] = game_stats[Other(d.team)]
             /\ \A p \in Roster(d.team) :
                  game_stats'[d.team].players[p] # game_stats[d.team].players[p]
                      => p \in {d.pA, d.pB}
             /\ game_stats'[d.team].players[d.pB].points
                    < game_stats[d.team].players[d.pB].points
    /\ \A t \in Teams :
         game_stats'[t].stats.points < game_stats[t].stats.points
             => /\ Len(NewLines) >= 1
                /\ NewLines[1].description.kind \in var_events

\* C20: a VAR line directly follows the line of a made basket of the same
\* team and of the matching kind (after a 2pt basket only var_overturn_2pt,
\* after a 3pt basket only var_overturn_3pt, var_overturn_3pt_another or
\* var_change_3_to_2), so before any substitution and at most once per
\* basket; it is logged in the iteration that logged the basket and debits
\* only that basket's passer, scorer and team; points go down in no other
\* step; the last-scoring-play memory is empty at the head of every loop
\* iteration.
C20_VarOnlyAfterBasket == []C20_State /\ [][C20_Step]_vars

\* a 3pt basket was corrected and a later basket stood without review
C20_Witness ==
    \E i \in Lines : \E j \in Lines :
        /\ Kind(i) \in VariantsAfter("assist_and_score_3pt")
        /\ i < j
        /\ j < Len(play_by_play)
        /\ Kind(j) \in Successful_events
        /\ Kind(j + 1) = "inbound_pass"

MadeBasketIteration == event_type \in Successful_events /\ pc \in {"var", "subs", "bill"}

C21_State ==
    /\ MadeBasketIteration =>
         LET d == last_score_event_details
         IN  /\ possession = defensive_team
             /\ d.team = offensive_team
             /\ d.pA # d.pB
             /\ LinesThisIter(Successful_events) = 1
    /\ (MadeBasketIteration /\ pc = "bill") => player_with_ball = NoPlayer

C21_Step ==
    /\ (Len(NewLines) >= 1 /\ NewLines[1].description.kind \in Successful_events) =>
         LET d == last_score_event_details'
         IN  /\ possession = offensive_team
             /\ possession' = defensive_team
             /\ d.pA = player_with_ball
             /\ In(d.pA, game_lineups[offensive_team].active)
             /\ In(d.pB, game_lineups[offensive_team].active)
             /\ d.pA # d.pB
             /\ game_stats'[offensive_team].players[d.pA].assists =
                    game_stats[offensive_team].players[d.pA].assists + 1
             /\ game_stats'[offensive_team].players[d.pB].points >
                    game_stats[offensive_team].players[d.pB].points
    /\ (MadeBasketIteration /\ pc' # "loop") => possession' = possession
    /\ (MadeBasketIteration /\ pc # "bill" /\ pc' = "bill") =>
         /\ subs_pending = <<>>
         /\ player_with_ball' = NoPlayer

miss_kinds == {"miss_2pt_from_pass", "miss_3pt_from_pass"}
block_kinds == {"block_on_2pt_shot", "block_on_3pt_shot"}
AttemptKey(kind) ==
    IF kind \in {"miss_2pt_from_pass", "block_on_2pt_shot"} THEN "2pt_shots_attempted"
    ELSE "3pt_shots_attempted"
\* the team whose player shot, read off a miss line (the shooter's team) or a
\* block line (the blocker's team)
ShootingTeam(i) == IF Kind(i) \in miss_kinds THEN LineTeam(i) ELSE Other(LineTeam(i))

C22_State ==
    /\ \A i \in Lines :
         Kind(i) \in miss_kinds \cup block_kinds =>
             IF i = Len(play_by_play)
             THEN pc = "rebound" /\ event_type = Kind(i)
             ELSE /\ Kind(i + 1) \in rebound_kinds
                  /\ (Kind(i + 1) = "rebound_offensive") = (LineTeam(i + 1) = ShootingTeam(i))
                  /\ (i + 1 < Len(play_by_play)) => Kind(i + 2) \notin rebound_kinds
    /\ (event_type \in miss_kinds \cup block_kinds /\ pc = "bill") =>
         /\ LinesThisIter(rebound_kinds) = 1
         /\ LinesThisIter(miss_kinds \cup block_kinds) = 1
         /\ LastKind \in rebound_kinds
         /\ Kind(Len(play_by_play) - 1) = event_type
         /\ possession = LineTeam(Len(play_by_play))
         /\ In(player_with_ball, game_lineups[possession].active)
         /\ ended_with_shot_attempt

C22_Step ==
    /\ (Len(NewLines) >= 1 /\ NewLines[1].description.kind \in miss_kinds) =>
         LET k == AttemptKey(NewLines[1].description.kind)
             passer == player_with_ball
         IN  /\ Len(NewLines) = 1
             /\ pc' = "rebound"
             /\ game_stats'[defensive_team] = game_stats[defensive_team]
             /\ game_stats'[offensive_team].stats =
                    [game_stats[offensive_team].stats EXCEPT ![k] = @ + 1]
             /\ game_stats'[offensive_team].players[passer] =
                    game_stats[offensive_team].players[passer]
             /\ \E sh \in Elems(game_lineups[offensive_team].active) \ {passer} :
                  game_stats'[offensive_team].players =
                      [game_stats[offensive_team].players EXCEPT ![sh][k] = @ + 1]
    /\ (Len(NewLines) >= 1 /\ NewLines[1].description.kind \in block_kinds) =>
         /\ Len(NewLines) = 1
         /\ pc' = "rebound"
         /\ game_stats'[offensive_team].players[player_with_ball]
                [AttemptKey(NewLines[1].description.kind)] =
              game_stats[offensive_team].players[player_with_ball]
                [AttemptKey(NewLines[1].description.kind)] + 1
    /\ (pc = "rebound" /\ event_type \in miss_kinds \cup block_kinds
        /\ Len(play_by_play') > Len(play_by_play)) =>
         LET r == NewLines[1].description
             off == r.kind = "rebound_offensive"
             key == IF off THEN "offensive_rebounds" ELSE "defensive_rebounds"
         IN  /\ Len(NewLines) = 1
             /\ r.kind \in rebound_kinds
             /\ r.team = (IF off THEN offensive_team ELSE defensive_team)
             /\ possession' = r.team
             /\ In(player_with_ball', game_lineups[r.team].active)
             /\ game_stats'[Other(r.team)] = game_stats[Other(r.team)]
             /\ game_stats'[r.team].stats =
                    [game_stats[r.team].stats EXCEPT !.rebounds = @ + 1, ![key] = @ + 1]
             /\ game_stats'[r.team].players =
                    [game_stats[r.team].players EXCEPT
                        ![player_with_ball'] = [@ EXCEPT !.rebounds = @ + 1, ![key] = @ + 1]]
             /\ pc' = "bill"

\* C22: every missed-shot line and every blocked-shot line is directly
\* followed, in the same loop iteration, by exactly one rebound line: the
\* rebounder is an active player of the rebounding team, the rebound is
\* offensive iff the rebounding team is the team that shot, possession goes to
\* the rebounding team and the ball to the rebounder; a missed shot leaves the
\* passer's record and the other team as they were and adds one attempt, and
\* nothing else, to the shooter and to the team.
C22_ReboundAfterMiss == []C22_State /\ [][C22_Step]_vars

\* after a pass the shot was missed and the shooting team took the rebound
C22_Witness ==
    /\ pc = "bill"
    /\ event_type = "miss_2pt_from_pass"
    /\ passes_done = 1
    /\ LastKind = "rebound_offensive"
    /\ possession = offensive_team

C23_State ==
    /\ (event_type = "steal" /\ pc = "bill") =>
         /\ LastKind = "steal"
         /\ LinesThisIter({"steal"}) = 1
         /\ LinesThisIter({"substitution"}) = 0
         /\ possession = defensive_team
         /\ In(player_with_ball, game_lineups[defensive_team].active)
    /\ (event_type = "turnover_by_bad_pass" /\ pc \in {"subs", "bill"}) =>
         /\ LinesThisIter({"turnover_by_bad_pass"}) = 1
         /\ LinesThisIter({"substitution"}) <= 1
         /\ \A i \in Lines :
              (i > prev_len /\ Kind(i) = "substitution") => LineTeam(i) = offensive_team
         /\ possession = defensive_team
         /\ pc = "bill" => player_with_ball = NoPlayer

C23_Step ==
    /\ (Len(NewLines) >= 1 /\ NewLines[1].description.kind = "steal") =>
         LET holder == player_with_ball
             stealer == player_with_ball'
         IN  /\ Len(NewLines) = 1
             /\ In(stealer, game_lineups[defensive_team].active)
             /\ game_stats'[defensive_team].stats =
                    [game_stats[defensive_team].stats EXCEPT !.steals = @ + 1]
             /\ game_stats'[defensive_team].players =
                    [game_stats[defensive_team].players EXCEPT ![stealer].steals = @ + 1]
             /\ game_stats'[offensive_team].stats =
                    [game_stats[offensive_team].stats EXCEPT !.turnovers = @ + 1]
             /\ game_stats'[offensive_team].players =
                    [game_stats[offensive_team].players EXCEPT ![holder].turnovers = @ + 1]
             /\ possession = offensive_team
             /\ possession' = defensive_team
             /\ subs_pending' = <<>>
             /\ lineup' = lineup
             /\ pc' = "bill"
    /\ (Len(NewLines) >= 1 /\ NewLines[1].description.kind = "turnover_by_bad_pass") =>
         LET holder == player_with_ball
         IN  /\ Len(NewLines) = 1
             /\ game_stats'[defensive_team] = game_stats[defensive_team]
             /\ game_stats'[offensive_team].stats =
                    [game_stats[offensive_team].stats EXCEPT !.turnovers = @ + 1]
             /\ game_stats'[offensive_team].players =
                    [game_stats[offensive_team].players EXCEPT ![holder].turnovers = @ + 1]
             /\ possession = offensive_team
             /\ possession' = defensive_team
             /\ Len(subs_pending') <= 1
             /\ \A i \in 1..Len(subs_pending') : subs_pending'[i].team = offensive_team
             /\ (cfg.allow_substitutions => Len(subs_pending') = 1)
    /\ (event_type = "turnover_by_bad_pass" /\ pc = "subs") =>
         /\ game_lineups'[defensive_team] = game_lineups[defensive_team]
         /\ possession' = possession
         /\ game_stats' = game_stats
         /\ pc' = "bill" => (subs_pending = <<>> /\ player_with_ball' = NoPlayer)

\* C23: a steal adds one steal to the stealer and the defensive team and one
\* turnover to the ball holder and the offensive team and nothing else, gives
\* possession to the defensive team and the ball to the stealer, and the
\* iteration ends without a substitution opportunity; a bad pass adds one
\* turnover to the ball holder and the offensive team and nothing else, gives
\* possession to the defensive team, opens one substitution opportunity, for
\* the team that lost the ball only, and then clears the ball pointer.
C23_Turnovers == []C23_State /\ [][C23_Step]_vars

\* after a steal, the team that then threw a bad pass substituted
C23_Witness ==
    /\ pc = "bill"
    /\ event_type = "turnover_by_bad_pass"
    /\ LastKind = "substitution"
    /\ player_with_ball = NoPlayer
    /\ \E i \in Lines : Kind(i) = "steal"

TimeoutIteration == event_type = "timeout" /\ pc \in {"subs", "bill"}
\* the position of the timeout line of the current iteration
TimeoutLine == CHOOSE i \in Lines : i > prev_len /\ Kind(i) = "timeout"

C24_State ==
    /\ TimeoutIteration =>
         /\ possession = offensive_team
         /\ game_stats = pre_score_stats
         /\ LinesThisIter({"timeout"}) = 1
         /\ LineTeam(TimeoutLine) = offensive_team
         /\ \A i \in Lines : (prev_len < i /\ i < TimeoutLine) =>
                                 Kind(i) \in {"inbound_pass", "pass_ball"}
    /\ (TimeoutIteration /\ pc = "subs") =>
         \A i \in Lines : i > TimeoutLine => Kind(i) = "substitution"
    /\ (TimeoutIteration /\ pc = "bill") =>
         LET n == Len(play_by_play)
         IN  /\ play_by_play[n].description = Desc("inbound_pass", offensive_team, 0)
             /\ play_by_play[n - 1].description = Desc("game_resume", "-", 0)
             /\ \A i \in Lines : (TimeoutLine < i /\ i < n - 1) => Kind(i) = "substitution"
             /\ \A t \in Teams :
                  Cardinality({i \in Lines : /\ i > TimeoutLine
                                             /\ Kind(i) = "substitution"
                                             /\ LineTeam(i) = t}) <= 1
             /\ In(player_with_ball, game_lineups[offensive_team].active)

C24_Step ==
    /\ (Len(NewLines) >= 1 /\ NewLines[1].description.kind = "timeout") =>
         /\ Len(NewLines) = 1
         /\ game_stats' = game_stats
         /\ ball' = ball
         /\ lineup' = lineup
         /\ cfg.allow_substitutions =>
              /\ Len(subs_pending') = 2
              /\ {subs_pending'[i].team : i \in 1..2} = Teams
              /\ \A i \in 1..2 : subs_pending'[i].cant_sub_player = NoPlayer
    /\ TimeoutIteration =>
         /\ game_stats' = game_stats
         /\ pc' # "loop" => possession' = possession
         /\ (pc = "subs" /\ pc' = "bill") =>
              /\ subs_pending = <<>>
              /\ lineup' = lineup
              /\ Len(NewLines) = 2
              /\ In(player_with_ball', game_lineups[offensive_team].active)

\* C24: a timeout iteration leaves possession and every statistic counter as
\* they were at its start; it logs the timeout line, gives each of the two
\* teams one substitution opportunity, then logs the game-resume line and an
\* inbound pass by the same offensive team, and the ball pointer is then a
\* player of that team's active lineup as the substitutions left it.
C24_Timeout == []C24_State /\ [][C24_Step]_vars

\* the offense substituted during a timeout and the inbound pass went to a
\* player who had come in from the bench
C24_Witness ==
    /\ TimeoutIteration
    /\ pc = "bill"
    /\ \E i \in Lines : i > TimeoutLine /\ Kind(i) = "substitution"
                        /\ LineTeam(i) = offensive_team
    /\ player_with_ball \notin Elems(InitialLineups[offensive_team].active)

RECURSIVE SumSeq(_)
SumSeq(s) == IF s = <<>> THEN 0 ELSE Head(s) + SumSeq(Tail(s))

C25_State ==
    LET target == cfg.target_events
        q == quarter_targets
    IN  /\ Len(q) = 4 + ot_num
        /\ quarter \in 1..Len(q)
        /\ \A i \in 1..4 :
             q[i] = (target \div 4) + (IF i <= target % 4 THEN 1 ELSE 0)
        /\ q[1] + q[2] + q[3] + q[4] = target
        /\ \A i \in 1..3 : q[i] >= q[i + 1]
        /\ q[1] - q[4] <= 1
        /\ target_events = SumSeq(q)
        /\ billed_in_quarter >= 0
        /\ billed_in_quarter <= q[quarter]
        /\ billed_total = SumSeq(SubSeq(q, 1, quarter - 1)) + billed_in_quarter

C25_Step ==
    /\ billed_total' - billed_total >= 0
    /\ quarter' # quarter =>
         /\ quarter' = quarter + 1
         /\ billed_total' = SumSeq(SubSeq(quarter_targets, 1, quarter))
         /\ billed_in_quarter' = 0
    /\ quarter' = quarter =>
         billed_in_quarter' - billed_in_quarter = billed_total' - billed_total
    /\ SubSeq(quarter_targets', 1, Len(quarter_targets)) = quarter_targets

\* C25: the four regulation budgets are floor(target/4) each plus one extra
\* unit for the first (target mod 4) quarters, so they sum to the target,
\* differ by at most 1 and never grow from one quarter to the next; in every
\* state target_events is the sum of all period budgets, appended overtimes
\* included, billed_in_quarter does not exceed the current period's budget, and
\* billed_total is the sum of the budgets of the completed periods plus
\* billed_in_quarter.
C25_Budgets == []C25_State /\ [][C25_Step]_vars

\* the third quarter of a game whose first quarter got an extra unit
C25_Witness ==
    /\ quarter = 3
    /\ quarter_targets[1] > quarter_targets[4]
    /\ billed_total = quarter_targets[1] + quarter_targets[2]
    /\ billed_total < target_events

start_kinds == {"Start of Q", "Start of OT"}
charged_foul_kinds == shooting_foul_events \cup {"var_overturn_2pt"}
foul_out_kinds == {"foul_out", "substitution_fouled_out", "short_handed"}
\* the line that opened the current period
PeriodStartLine ==
    CHOOSE i \in Lines : Kind(i) \in start_kinds /\ \A j \in Lines : j > i => Kind(j) \notin start_kinds
ChargedInPeriod(t) ==
    Cardinality({i \in Lines : /\ i > PeriodStartLine
                               /\ Kind(i) \in charged_foul_kinds
                               /\ LineTeam(i) = t})
InBonus(t) == team_fouls_in_quarter[t] >= TEAM_FOUL_LIMIT
NewKinds == {NewLines[i].description.kind : i \in 1..Len(NewLines)}

C26_State ==
    /\ \A t \in Teams : team_fouls_in_quarter[t] = ChargedInPeriod(t)
    /\ (pc \notin {"loop", "done"} /\ event_type \notin shooting_foul_events) =>
         LinesThisIter(ft_kinds) = 0
    /\ (pc \notin {"loop", "done"} /\ event_type \in shooting_foul_events) =>
         LinesThisIter(ft_kinds) <= (IF event_type = "shooting_foul_2pt" THEN 2 ELSE 3)

C26_Step ==
    /\ \A t \in Teams :
         team_fouls_in_quarter'[t] =
             IF quarter' # quarter THEN 0
             ELSE team_fouls_in_quarter[t]
                      + (game_stats'[t].stats.fouls - game_stats[t].stats.fouls)
    /\ \A t \in Teams :
         (team_fouls_in_quarter'[t] > team_fouls_in_quarter[t]
              /\ team_fouls_in_quarter'[t] >= TEAM_FOUL_LIMIT) =>
             /\ team_fouls_in_quarter'[t] = team_fouls_in_quarter[t] + 1
             /\ Len(NewLines) >= 1
             /\ NewLines[1].description.kind \in charged_foul_kinds
             /\ NewLines[1].description.team = t
             /\ \A i \in 2..Len(NewLines) : NewLines[i].description.kind \in foul_out_kinds
             /\ ball' = ball
             /\ \A u \in Teams : \A k \in {"ft_made", "ft_attempted"} :
                  game_stats'[u].stats[k] = game_stats[u].stats[k]
             /\ game_stats'[Other(t)].stats.points = game_stats[Other(t)].stats.points
    /\ (NewKinds \cap ft_kinds # {}) =>
         /\ event_type \in shooting_foul_events
         /\ LinesThisIter(shooting_foul_events) = 1
         /\ Len(NewLines) = 1
         /\ NewLines[1].description.team = offensive_team
         /\ ft_i < (IF event_type = "shooting_foul_2pt" THEN 2 ELSE 3)
    /\ (\E t \in Teams : InBonus(t)) /\ pc = "var" =>
         NewKinds \subseteq var_events \cup foul_out_kinds

\* C26: the per-quarter team-foul counter is tracked but inert: it goes up by
\* 1 with each charged foul (a shooting foul of the defense, a 2pt overturn of
\* the offense) and is 0 for both teams after every quarter and overtime
\* start, so that it always counts the fouls charged to the team in the
\* current period; the step in which it reaches or passes TEAM_FOUL_LIMIT logs
\* only the foul and its foul-out notices, awards no free throw, and changes
\* neither possession nor ball holder nor any free-throw or opponent counter;
\* free throws are logged only inside a shooting-foul sequence, at most 2
\* after shooting_foul_2pt and 3 after shooting_foul_3pt.
C26_TeamFoulsInert == []C26_State /\ [][C26_Step]_vars

\* a 2pt overturn has taken the scoring team to the team-foul limit and the
\* play has ended with the ball going to the other team
C26_Witness ==
    /\ pc = "bill"
    /\ VarApplied
    /\ var_event_type = "var_overturn_2pt"
    /\ InBonus(offensive_team)
    /\ possession = defensive_team
    /\ \A t \in Teams : game_stats[t].stats.ft_attempted = 0

C27_Step ==
    pc = "foul_out_call" =>
      LET t == defensive_team
          player_out == shooter
          old == game_lineups[t]
          new == game_lineups'[t]
          n == Len(play_by_play)
          Notice(i, kind) == /\ Len(play_by_play') >= n + i
                             /\ play_by_play'[n + i].description = Desc(kind, t, 0)
                             /\ play_by_play'[n + i].event_id = n + i
      IN  /\ pc' = "foul_out_return"
          /\ SubSeq(play_by_play', 1, n) = play_by_play
          /\ game_lineups'[Other(t)] = game_lineups[Other(t)]
          /\ game_stats' = game_stats
          /\ new.disqualified = ListAppend(old.disqualified, player_out)
          /\ (In(player_out, old.active) /\ Elems(old.bench) = {}) =>
               /\ new.active = ListRemove(old.active, player_out)
               /\ ListLen(new.active) = ListLen(old.active) - 1
               /\ new.bench = old.bench
               /\ game_participants' = game_participants
               /\ Len(play_by_play') = n + 2
               /\ Notice(1, "foul_out")
               /\ Notice(2, "short_handed")
          /\ In(player_out, old.bench) =>
               /\ new.active = old.active
               /\ new.bench = ListRemove(old.bench, player_out)
               /\ game_participants' = game_participants
               /\ Len(play_by_play') = n + 1
               /\ Notice(1, "foul_out")

\* C27: a call of _force_foul_out_substitution always returns; for an active
\* player of a team whose bench is empty it moves the player to disqualified
\* and brings nobody in (active shrinks by one, bench and participants stay as
\* they are) and appends the disqualification line followed by the
\* short-handed line; for a player who sits on the bench it moves the player
\* to disqualified, leaves active and participants as they are and appends
\* the disqualification line only.
C27_ShortHanded ==
    [](pc = "foul_out_call" => ENABLED ForceFoulOutCall) /\ [][C27_Step]_vars

\* the last active player of a team without bench has been disqualified
C27_Witness ==
    /\ pc = "foul_out_return"
    /\ LastKind = "short_handed"
    /\ Kind(Len(play_by_play) - 1) = "foul_out"
    /\ Elems(game_lineups[defensive_team].active) = {}
    /\ Elems(game_lineups[defensive_team].bench) = {}
    /\ In(shooter, game_lineups[defensive_team].disqualified)

shot_attempt_events ==
    Successful_events \cup unsuccessful_2pt_events \cup unsuccessful_3pt_events
Budget == quarter_targets[quarter]

C28_State ==
    /\ pc = "bill" => (ended_with_shot_attempt <=> event_type \in shot_attempt_events)
    /\ (quarter >= 4 /\ pc \notin {"loop", "done"}) => billed_in_quarter < Budget
    /\ (quarter >= 4 /\ pc = "loop") =>
         (billed_in_quarter >= Budget <=> billed_total >= target_events)

C28_Step ==
    /\ (\E i \in 1..Len(NewLines) :
           /\ NewLines[i].description.kind = "End of Q"
           /\ NewLines[i].description.period \in 1..3) =>
         /\ pc = "bill"
         /\ event_type \in shot_attempt_events
         /\ NewLines[1].description = Desc("End of Q", "-", quarter)
         /\ quarter' = quarter + 1
    /\ (quarter' # quarter \/ ot_num' # ot_num
        \/ (billed_total < target_events /\ billed_total' >= target_events')) =>
         /\ pc = "bill"
         /\ event_type \in shot_attempt_events
    /\ (pc = "bill" /\ quarter >= 4 /\ event_type \notin shot_attempt_events) =>
         /\ quarter' = quarter
         /\ billed_in_quarter' = Min(billed_in_quarter + added_this_iter, Budget - 1)
         /\ billed_in_quarter' < Budget
         /\ billed_total' < target_events
         /\ pc' = "loop"

\* C28: an 'End of Qn' marker of Q1-Q3 is appended, and in Q4 or an overtime
\* the budget is exhausted (the loop is left or an overtime is appended), only
\* at the end of a loop iteration whose selected event was a shot attempt
\* (made basket, missed shot, blocked shot, shooting foul); in Q4 and in
\* every overtime an iteration whose event was not a shot attempt (timeout,
\* steal, bad pass) bills its lines only up to one unit below the period
\* budget, so billed_in_quarter stays below the budget and the loop goes on.
C28_ShotClosesPeriod == []C28_State /\ [][C28_Step]_vars

\* the fourth quarter goes on after a bad pass whose last unit was held back
C28_Witness ==
    /\ pc = "loop"
    /\ quarter = 4
    /\ LastKind = "turnover_by_bad_pass"
    /\ Len(play_by_play) > PeriodStartLine + 1
    /\ billed_in_quarter = Budget - 1
    /\ billed_total < target_events

C29_Step ==
    (/\ pc = "subs"
     /\ subs_pending # <<>>
     /\ Head(subs_pending).cant_sub_player # NoPlayer) =>
        LET t == Head(subs_pending).team
            p == Head(subs_pending).cant_sub_player
        IN  /\ In(p, game_lineups'[t].active) = In(p, game_lineups[t].active)
            /\ In(p, game_lineups'[t].bench) = In(p, game_lineups[t].bench)

effect_kinds ==
    shot_attempt_events \cup ft_kinds \cup rebound_kinds \cup var_events
        \cup {"steal", "turnover_by_bad_pass"}
replacement_kinds == {"substitution_fouled_out", "short_handed"}

\* the ledgers that one application of the effect of a logged line can leave
EffectsOf(d) ==
    LET off == Roster(offensive_team)
        def == Roster(defensive_team)
        k == d.kind
    IN  CASE k \in Successful_events ->
               {ScoreEffect(k, game_stats, pA, pB, offensive_team) : pA \in off, pB \in off}
          [] k \in miss_kinds ->
               {MissEffect(k, game_stats, pA, pB, offensive_team) : pA \in off, pB \in off}
          [] k \in block_kinds ->
               {BlockEffect(k, game_stats, pA, pB, defensive_team, offensive_team)
                : pA \in def, pB \in off}
          [] k \in shooting_foul_events ->
               {FoulEffect(k, game_stats, pA, pB, offensive_team, defensive_team)
                : pA \in off, pB \in def}
          [] k = "ft_made" -> {ft_made(game_stats, pA, offensive_team) : pA \in off}
          [] k = "ft_missed" -> {ft_missed(game_stats, pA, offensive_team) : pA \in off}
          [] k = "rebound_offensive" ->
               {rebound_offensive(game_stats, pA, d.team) : pA \in Roster(d.team)}
          [] k = "rebound_defensive" ->
               {rebound_defensive(game_stats, pA, d.team) : pA \in Roster(d.team)}
          [] k = "steal" ->
               {steal(game_stats, pA, pB, defensive_team, offensive_team)
                : pA \in def, pB \in off}
          [] k = "turnover_by_bad_pass" ->
               {turnover_by_bad_pass(game_stats, pA, offensive_team) : pA \in off}
          [] k \in var_events ->
               {VarEffect(k, game_stats, pA, pB, d.team)
                : pA \in Roster(d.team), pB \in Roster(d.team)}
          [] OTHER -> {game_stats}

C30_Step ==
    /\ game_stats' # game_stats =>
         /\ Len(NewLines) >= 1
         /\ NewLines[1].description.kind \in effect_kinds
    /\ (Len(NewLines) >= 1 /\ NewKinds \cap effect_kinds # {}) =>
         /\ NewLines[1].description.kind \in effect_kinds
         /\ \A i \in 2..Len(NewLines) : NewLines[i].description.kind \notin effect_kinds
         /\ game_stats' # game_stats
         /\ game_stats' \in EffectsOf(NewLines[1].description)
         /\ lineup' # lineup =>
              /\ Len(NewLines) = 3
              /\ NewLines[1].description.kind \in charged_foul_kinds
              /\ NewLines[2].description = Desc("foul_out", NewLines[1].description.team, 0)
              /\ NewLines[3].description.kind \in replacement_kinds
              /\ NewLines[3].description.team = NewLines[1].description.team
         /\ lineup' = lineup => Len(NewLines) = 1
    /\ (lineup' # lineup /\ NewKinds \cap effect_kinds = {}) =>
         /\ Len(NewLines) = 1
         /\ NewLines[1].description.kind = "substitution"
         /\ game_stats' = game_stats

C30_State ==
    \A i \in Lines :
        /\ Kind(i) = "foul_out" =>
             /\ i > 1
             /\ Kind(i - 1) \in charged_foul_kinds
             /\ LineTeam(i - 1) = LineTeam(i)
             /\ i < Len(play_by_play)
             /\ Kind(i + 1) \in replacement_kinds
             /\ LineTeam(i + 1) = LineTeam(i)
        /\ Kind(i) \in replacement_kinds => (i > 1 /\ Kind(i - 1) = "foul_out")

\* C30: an effect and its log line belong to one sequence step: a step that
\* changes the ledger appends, first, the line of one statistic-changing
\* event and leaves the ledger as one application of that event's effect
\* leaves it, and a step that appends such a line applies its effect; the
\* step appends no second such line and changes no lineup, except that the
\* line of a charged foul may be followed, in the same step and directly, by
\* the foul-out notice of that team and its replacement (or short-handed)
\* line, so in the log every foul-out notice directly follows its foul and is
\* directly followed by its replacement line.
C30_EffectWithLine == []C30_State /\ [][C30_Step]_vars

\* a defender has fouled out on a shooting foul and been replaced, and the
\* shooter is about to take the first free throw
C30_Witness ==
    /\ pc = "ft"
    /\ ft_i = 0
    /\ Len(play_by_play) >= 3
    /\ LastKind = "substitution_fouled_out"
    /\ Kind(Len(play_by_play) - 1) = "foul_out"
    /\ Kind(Len(play_by_play) - 2) \in shooting_foul_events
    /\ LineTeam(Len(play_by_play) - 2) = defensive_team

SubstitutionOpportunity ==
    /\ pc = "subs"
    /\ subs_pending # <<>>
    /\ subs_pending' = Tail(subs_pending)

\* C31, as claimed: a substitution opportunity of a made-basket iteration is
\* taken only when no VAR correction was applied to that basket.
C31_SubsOnlyWithoutVar ==
    [][(MadeBasketIteration /\ SubstitutionOpportunity) => ~VarApplied]_vars

C31_Step ==
    /\ (pc = "var" /\ pc' # "var") =>
         /\ pc' = "subs"
         /\ cfg.allow_substitutions => subs_pending' = BothTeams
         /\ Len(NewLines) >= 1 =>
              /\ VarApplied'
              /\ NewLines[1].description.kind = var_event_type'
    /\ (MadeBasketIteration /\ pc = "subs" /\ pc' = "subs") =>
         /\ SubstitutionOpportunity
         /\ Len(NewLines) <= 1
         /\ Len(NewLines) = 1 =>
              NewLines[1].description = Desc("substitution", Head(subs_pending).team, 0)
         /\ VarApplied' = VarApplied
    /\ (MadeBasketIteration /\ pc = "subs" /\ pc' # "subs") =>
         /\ subs_pending = <<>>
         /\ pc' = "bill"

\* C31: after a made basket the substitution opportunity is given to team A
\* and then to team B whether or not a VAR correction was applied to that
\* basket: the step that leaves the review, with or without a VAR line,
\* leaves both opportunities pending, each is taken in turn (logging at most
\* one substitution line of its team), and the ball pointer is cleared only
\* when both have been taken.
C31_SubsAfterEveryBasket == [][C31_Step]_vars

\* a basket was corrected by VAR and both teams then substituted
C31_Witness ==
    /\ MadeBasketIteration
    /\ VarApplied
    /\ pc = "subs"
    /\ subs_pending = <<>>
    /\ Len(play_by_play) >= prev_len + 4
    /\ Kind(Len(play_by_play) - 2) \in var_events
    /\ Kind(Len(play_by_play) - 1) = "substitution"
    /\ LineTeam(Len(play_by_play) - 1) = teamA_name
    /\ LastKind = "substitution"
    /\ LineTeam(Len(play_by_play)) = teamB_name

FoulIteration == event_type \in shooting_foul_events /\ pc \in {"ft", "subs", "rebound", "bill"}

FirstNewKind == NewLines[1].description.kind

C32_Step ==
    /\ (Len(NewLines) >= 1 /\ FirstNewKind \in shooting_foul_events) =>
         LET k == IF FirstNewKind = "shooting_foul_2pt" THEN "2pt_shots_attempted"
                  ELSE "3pt_shots_attempted"
             fouled == player_with_ball
         IN  \E defender \in Elems(game_lineups[defensive_team].active) :
               game_stats' =
                   [game_stats EXCEPT
                      ![offensive_team].stats[k] = @ + 1,
                      ![offensive_team].players[fouled][k] = @ + 1,
                      ![defensive_team].stats.fouls = @ + 1,
                      ![defensive_team].players[defender].fouls = @ + 1]
    /\ (Len(NewLines) >= 1 /\ FirstNewKind = "ft_made") =>
         /\ Len(NewLines) = 1
         /\ game_stats' =
                [game_stats EXCEPT
                   ![offensive_team].stats.points = @ + 1,
                   ![offensive_team].stats.ft_made = @ + 1,
                   ![offensive_team].stats.ft_attempted = @ + 1,
                   ![offensive_team].players[shooter].points = @ + 1,
                   ![offensive_team].players[shooter].ft_made = @ + 1,
                   ![offensive_team].players[shooter].ft_attempted = @ + 1]
    /\ (Len(NewLines) >= 1 /\ FirstNewKind = "ft_missed") =>
         /\ Len(NewLines) = 1
         /\ game_stats' =
                [game_stats EXCEPT
                   ![offensive_team].stats.ft_attempted = @ + 1,
                   ![offensive_team].players[shooter].ft_attempted = @ + 1]
    /\ \A t \in Teams : \A p \in Roster(t) :
         game_stats'[t].players[p].ft_attempted # game_stats[t].players[p].ft_attempted
             => /\ Len(NewLines) = 1
                /\ FirstNewKind \in ft_kinds

C32_State ==
    FoulIteration =>
        \A b \in {<<game_stats[offensive_team].stats, pre_score_stats[offensive_team].stats>>,
                  <<game_stats[offensive_team].players[shooter],
                    pre_score_stats[offensive_team].players[shooter]>>} :
            /\ b[1].ft_attempted = b[2].ft_attempted + LinesThisIter(ft_kinds)
            /\ b[1].ft_made = b[2].ft_made + LinesThisIter({"ft_made"})
            /\ b[1].points = b[2].points + LinesThisIter({"ft_made"})
            /\ b[1]["2pt_shots_made"] = b[2]["2pt_shots_made"]
            /\ b[1]["3pt_shots_made"] = b[2]["3pt_shots_made"]
            /\ b[1]["2pt_shots_attempted"] + b[1]["3pt_shots_attempted"] =
                   b[2]["2pt_shots_attempted"] + b[2]["3pt_shots_attempted"] + 1

\* C32: the step that logs a shooting foul changes exactly four counters:
\* one attempt of the fouled shot type for the fouled ball holder and for the
\* offensive team, one foul for one active defender and for the defensive
\* team (no make, no points); a step that logs a made free throw adds 1 to
\* points, ft_made and ft_attempted of the shooter and of the team and
\* nothing else, one that logs a missed free throw adds 1 to ft_attempted of
\* both and nothing else; ft_attempted changes in no other step; so through
\* the foul's iteration, measured from the ledger at the head of the
\* iteration, the shooter's and the team's ft_attempted have grown by the
\* number of free throws logged and ft_made and points by the number of makes.
C32_FoulAndFreeThrows == []C32_State /\ [][C32_Step]_vars

\* three free throws after a foul on a 3-point attempt: two made, one missed
C32_Witness ==
    /\ FoulIteration
    /\ event_type = "shooting_foul_3pt"
    /\ LinesThisIter({"ft_made"}) = 2
    /\ LinesThisIter({"ft_missed"}) = 1
    /\ game_stats[offensive_team].players[shooter].points =
           pre_score_stats[offensive_team].players[shooter].points + 2

OnCourt(t) == Elems(game_lineups[t].active)

C33_State ==
    /\ \A t \in Teams :
         /\ ListLen(game_lineups[t].active) = StartingFive
         /\ Cardinality(OnCourt(t)) = StartingFive
         /\ \A p \in OnCourt(t) : OnCourt(t) \ {p} # {}
    /\ \A i \in Lines :
         /\ Kind(i) # "short_handed"
         /\ Kind(i) = "foul_out" =>
              /\ i < Len(play_by_play)
              /\ Kind(i + 1) = "substitution_fouled_out"
              /\ LineTeam(i + 1) = LineTeam(i)
    /\ pc = "passes" => Pairs = OFFENSIVE_EVENTS \ 
                            (IF _team_can_commit_fouls(defensive_team, game_lineups)
                             THEN {} ELSE shooting_foul_events)

C33_Step ==
    \A t \in Teams :
        /\ game_stats'[t].stats.fouls > game_stats[t].stats.fouls
               => Elems(game_lineups[t].bench) # {}
        /\ \A p \in OnCourt(t) :
             ~In(p, game_lineups'[t].active) /\ In(p, game_lineups'[t].disqualified)
                 => \E q \in Elems(game_lineups[t].bench) :
                      OnCourt(t)' = (OnCourt(t) \ {p}) \cup {q}

\* C33: in every state between two steps of generate_report each team's
\* active list holds exactly the starting number of distinct players (5 in
\* the source, StartingFive here): a foul is charged to a team only while
\* its bench is non-empty, a step that disqualifies an active player puts a
\* bench player in the place in the same step (every foul-out line is
\* directly followed by the replacement line of the same team), no
\* short-handed line is ever logged, every active player has a teammate on
\* court to pass to or shoot (the same-player fallbacks are not taken), and
\* the two-player filter of the event selection removes nothing.
C33_FullLineups == []C33_State /\ [][C33_Step]_vars

\* a team whose whole bench has gone on court for fouled-out players
C33_Witness ==
    \E t \in Teams :
        /\ Elems(game_lineups[t].bench) = {}
        /\ Cardinality(Elems(game_lineups[t].disqualified)) = NumPlayers - StartingFive
        /\ Cardinality(OnCourt(t)) = StartingFive
        /\ pc = "passes"
        /\ offensive_team = Other(t)

FouledOut(t) == {p \in Roster(t) : Fouls(game_stats, t, p) = FOUL_LIMIT}

InitialBench(t) == ListLen(InitialLineups[t].bench)

C34_State ==
    \A t \in Teams :
        /\ \A p \in Roster(t) : Fouls(game_stats, t, p) <= FOUL_LIMIT
        /\ Elems(game_lineups[t].disqualified) = FouledOut(t)
        /\ ListLen(game_lineups[t].disqualified) = Cardinality(FouledOut(t))
        /\ ListLen(game_lineups[t].bench) = InitialBench(t) - Cardinality(FouledOut(t))
        /\ Cardinality(FouledOut(t)) <= NumPlayers - StartingFive

\* C34: at the head and at the end of every loop iteration, and between the
\* steps of one, no player has more than FOUL_LIMIT personal fouls, each
\* team's disqualified list holds exactly its players with FOUL_LIMIT fouls
\* (each once), and its bench holds the initial number of bench players less
\* the number of its disqualified players, so that at most the initial bench
\* (7 of 12 in the source) is ever disqualified.
C34_FoulLimit == C34_State

\* a team that has lost its whole bench to foul-outs, with another player one
\* foul from the limit, at the head of an iteration
C34_Witness ==
    /\ pc = "loop"
    /\ \E t \in Teams :
         /\ Cardinality(FouledOut(t)) = NumPlayers - StartingFive
         /\ ListLen(game_lineups[t].bench) = 0
         /\ \E p \in OnCourt(t) : Fouls(game_stats, t, p) = FOUL_LIMIT - 1

C35_State ==
    \A b \in StatBlocks(game_stats) :
        /\ b.points = 2 * b["2pt_shots_made"] + 3 * b["3pt_shots_made"] + b.ft_made
        /\ b.rebounds = b.offensive_rebounds + b.defensive_rebounds

\* C35: in every state, for every player record and every team record,
\* points = 2 x 2pt_shots_made + 3 x 3pt_shots_made + ft_made and
\* rebounds = offensive_rebounds + defensive_rebounds, also after a VAR
\* overturn or a 3-to-2 downgrade.
C35_PointsFromMakes == C35_State

\* a 3-point basket has just been downgraded to two points, the scorer now
\* holding a made 2pt shot, while the other team has points of its own
C35_Witness ==
    /\ VarApplied
    /\ var_event_type = "var_change_3_to_2"
    /\ LET d == last_score_event_details
       IN  /\ d.team \in Teams
           /\ game_stats[d.team].players[d.pB].points = 2
           /\ game_stats[d.team].players[d.pB]["2pt_shots_made"] = 1
           /\ game_stats[d.team].players[d.pB]["3pt_shots_made"] = 0
           /\ game_stats[Other(d.team)].stats.points > 0

\* a table of changes: the listed keys by the listed amounts, the others by 0
Delta(rec) == [k \in StatKeys |-> IF k \in DOMAIN rec THEN rec[k] ELSE 0]

\* what each VAR variant adds to the team, the passer (pA) and the scorer (pB)
VarDelta(vt) ==
    CASE vt = "var_overturn_2pt" ->
           [team |-> Delta([points |-> -2, assists |-> -1, fouls |-> 1, turnovers |-> 1]
                           @@ ("2pt_shots_made" :> -1 @@ "2pt_shots_attempted" :> -1)),
            pA |-> Delta([assists |-> -1]),
            pB |-> Delta([points |-> -2, fouls |-> 1, turnovers |-> 1]
                         @@ ("2pt_shots_made" :> -1 @@ "2pt_shots_attempted" :> -1))]
      [] vt \in overturn_3pt_events ->
           [team |-> Delta([points |-> -3, assists |-> -1, turnovers |-> 1]
                           @@ ("3pt_shots_made" :> -1 @@ "3pt_shots_attempted" :> -1)),
            pA |-> Delta([assists |-> -1]),
            pB |-> Delta([points |-> -3, turnovers |-> 1]
                         @@ ("3pt_shots_made" :> -1 @@ "3pt_shots_attempted" :> -1))]
      [] vt = "var_change_3_to_2" ->
           [team |-> Delta([points |-> -1]
                           @@ ("3pt_shots_made" :> -1 @@ "3pt_shots_attempted" :> -1
                               @@ "2pt_shots_made" :> 1 @@ "2pt_shots_attempted" :> 1)),
            pA |-> Delta([points |-> 0]),
            pB |-> Delta([points |-> -1]
                         @@ ("3pt_shots_made" :> -1 @@ "3pt_shots_attempted" :> -1
                             @@ "2pt_shots_made" :> 1 @@ "2pt_shots_attempted" :> 1))]

Plus(block, delta) == [k \in StatKeys |-> block[k] + delta[k]]

C36_Step ==
    (Len(NewLines) >= 1 /\ FirstNewKind \in var_events) =>
        LET d == last_score_event_details
            dl == VarDelta(FirstNewKind)
            team_plain == Plus(game_stats[d.team].stats, dl.team)
            pA_plain == Plus(game_stats[d.team].players[d.pA], dl.pA)
            pB_plain == Plus(game_stats[d.team].players[d.pB], dl.pB)
        IN  /\ d.pA # d.pB
            /\ \A k \in StatKeys :
                 /\ team_plain[k] >= 0
                 /\ pA_plain[k] >= 0
                 /\ pB_plain[k] >= 0
            /\ \A b \in {team_plain, pB_plain} : \A c \in ShotCounters : b[c[2]] >= b[c[1]]
            /\ game_stats' =
                   [game_stats EXCEPT
                      ![d.team].stats = team_plain,
                      ![d.team].players[d.pA] = pA_plain,
                      ![d.team].players[d.pB] = pB_plain]

\* C36: in every step that applies a VAR effect, each counter of the team,
\* the passer and the scorer that the effect subtracts from is at least the
\* amount subtracted, and the attempted counters stay at or above the made
\* counters, so no max(0, ...) clamp and no attempts >= made fix-up changes a
\* value: the ledger after the step is the ledger before it with the plain
\* additions and subtractions of the variant applied.
C36_ClampsNeverBite == [][C36_Step]_vars

\* an overturned 3-point basket was the scorer's only basket and the passer's
\* only assist: both counters are taken down to exactly zero
C36_Witness ==
    /\ VarApplied
    /\ var_event_type \in overturn_3pt_events
    /\ LET d == last_score_event_details
       IN  /\ d.team \in Teams
           /\ pre_score_stats[d.team].players[d.pB].points = 0
           /\ game_stats[d.team].players[d.pB].points = 0
           /\ game_stats[d.team].players[d.pB]["3pt_shots_attempted"] = 0
           /\ game_stats[d.team].players[d.pA].assists = 0
           /\ game_stats[d.team].players[d.pB].turnovers = 1

event_kinds ==
    Successful_events \cup miss_kinds \cup block_kinds \cup shooting_foul_events
        \cup {"steal", "turnover_by_bad_pass", "timeout"}

C37_State ==
    /\ pc = "loop" =>
         \/ player_with_ball = NoPlayer
         \/ In(player_with_ball, game_lineups[possession].active)
    /\ pc = "passes" =>
         /\ offensive_team = possession
         /\ player_with_ball \in active_players
         /\ player_with_ball \in Roster(offensive_team)
         /\ ~In(player_with_ball, game_lineups[offensive_team].bench)
         /\ ~In(player_with_ball, game_lineups[offensive_team].disqualified)
    /\ InFreeThrows => shooter \in active_players

C37_Step ==
    /\ (Len(NewLines) >= 1 /\ FirstNewKind \in event_kinds) =>
         /\ pc = "passes"
         /\ event_type' = FirstNewKind
         /\ player_with_ball \in active_players
    /\ (Len(NewLines) >= 1 /\ FirstNewKind \in {"steal", "turnover_by_bad_pass"}) =>
         game_stats'[offensive_team].players[player_with_ball].turnovers =
             game_stats[offensive_team].players[player_with_ball].turnovers + 1
    /\ (Len(NewLines) >= 1
        /\ FirstNewKind \in block_kinds \cup shooting_foul_events) =>
         LET k == IF FirstNewKind \in {"block_on_2pt_shot", "shooting_foul_2pt"}
                  THEN "2pt_shots_attempted" ELSE "3pt_shots_attempted"
         IN  game_stats'[offensive_team].players[player_with_ball][k] =
                 game_stats[offensive_team].players[player_with_ball][k] + 1
    /\ (Len(NewLines) >= 1 /\ FirstNewKind \in Successful_events) =>
         game_stats'[offensive_team].players[player_with_ball].assists =
             game_stats[offensive_team].players[player_with_ball].assists + 1
    /\ (Len(NewLines) >= 1 /\ FirstNewKind \in shooting_foul_events) =>
         shooter' = player_with_ball

\* C37: at the head of every loop iteration the ball pointer is empty or
\* names a player of the active list of the team in possession; when the
\* event is selected the ball holder is an active player of the offensive
\* team (the team in possession), on neither its bench nor its disqualified
\* list; the step that logs the selected event charges that player as the
\* passer, the turnover committer, the blocked shooter or the fouled
\* shooter, and the fouled shooter is still active at each free throw.
C37_BallHolderActive == []C37_State /\ [][C37_Step]_vars

\* an iteration that starts without an inbound pass, the ball with the
\* player of the stealing team who took it in the iteration before
C37_Witness ==
    /\ pc = "passes"
    /\ Len(play_by_play) = prev_len
    /\ LastKind = "steal"
    /\ offensive_team = LineTeam(Len(play_by_play))
    /\ player_with_ball \in active_players
    /\ game_stats[offensive_team].players[player_with_ball].steals = 1

marker_kinds == {"Start of Q", "End of Q", "Start of OT", "End of OT"}

IsMarker(e) == e.description.kind \in marker_kinds

\* the period markers of the log, in log order
Markers == [j \in 1..Len(SelectSeq(play_by_play, IsMarker)) |->
               SelectSeq(play_by_play, IsMarker)[j].description]

StartMarker(i) ==
    IF i <= 4 THEN Desc("Start of Q", "-", i) ELSE Desc("Start of OT", "-", i - 4)

EndMarker(i) ==
    IF i <= 4 THEN Desc("End of Q", "-", i) ELSE Desc("End of OT", "-", i - 4)

\* start and end marker of each of the periods 1..n, alternating
PeriodMarkers(n) ==
    [j \in 1..(2 * n) |-> IF j % 2 = 1 THEN StartMarker((j + 1) \div 2)
                          ELSE EndMarker(j \div 2)]

C38_State ==
    /\ quarter >= 1
    /\ ot_num = Max(0, quarter - 4)
    /\ Len(quarter_targets) = Max(4, quarter)
    /\ IF pc = "done"
       THEN /\ quarter >= 4
            /\ Markers = PeriodMarkers(quarter)
            /\ LastKind = "end_of_game"
            /\ CountAll({"end_of_game"}) = 1
            /\ Cardinality({i \in Lines : play_by_play[i].description =
                                             Desc("End of Q", "-", 4)}) = 1
            /\ CountAll({"ends in a tie"}) = quarter - 4
            /\ CountAll({"overtime_jump_ball"}) = quarter - 4
       ELSE /\ Markers = SubSeq(PeriodMarkers(quarter), 1, 2 * quarter - 1)
            /\ CountAll({"end_of_game"}) = 0

\* C38: the period markers of the returned log are, in this order and with
\* nothing repeated or missing, Start of Q1, End of Q1, ..., Start of Q4,
\* End of Q4 and then Start of OTk, End of OTk for each overtime k = 1..n,
\* where n = quarter - 4 = ot_num is also the number of tie announcements
\* and of overtime jump balls; 'End of Q4.' is there exactly once with or
\* without overtime, and the last line, and only the last, is 'End of
\* game.'.  While the game runs the markers are that sequence up to the
\* start marker of the current period.
C38_PeriodMarkers == C38_State

\* a finished game that went to overtime
C38_Witness ==
    /\ pc = "done"
    /\ quarter > 4
    /\ Markers = PeriodMarkers(quarter)
    /\ Kind(Len(play_by_play) - 1) = "End of OT"

Unequal == game_stats[teamA_name].stats.points # game_stats[teamB_name].stats.points

\* the iteration at its billing took the last unit of the last period's
\* budget with a shot attempt, and the scores differ
LastUnitTaken ==
    /\ pc = "bill"
    /\ quarter >= 4
    /\ ended_with_shot_attempt
    /\ billed_in_quarter + added_this_iter >= Budget
    /\ Unequal

C39_State ==
    /\ (pc = "passes" /\ Open) =>
         /\ (shot_attempt_events \ shooting_foul_events) \subseteq Pairs
         /\ SelectableEvents \cap shot_attempt_events # {}
    /\ pc = "bill" => added_this_iter >= 1
    /\ pc \in {"loop", "bill"} => billed_in_quarter <= Budget

C39_Step ==
    /\ (/\ pc = "bill"
        /\ billed_in_quarter < Budget
        /\ ~(quarter >= 4 /\ ~ended_with_shot_attempt /\ billed_in_quarter = Budget - 1))
       => billed_total' > billed_total
    /\ (/\ pc = "bill"
        /\ ended_with_shot_attempt
        /\ billed_in_quarter + added_this_iter >= Budget)
       => \/ quarter' = quarter + 1
          \/ /\ quarter >= 4
             /\ Unequal
             /\ billed_total' >= target_events'
             /\ pc' = "loop"
    /\ billed_total' >= billed_total
    /\ Len(play_by_play') >= Len(play_by_play)

====
